---- MODULE Spec2Model ----
(***************************************************************************)
(* A model of yoink: the cache resolver of cli.main and the fetch-and-     *)
(* extract orchestrator yoink_engine.yoink_package, over a filesystem      *)
(* rooted at PACKAGE_CACHE_BASE.                                           *)
(*                                                                         *)
(* Text (package specs, names, versions) is a sequence of one-character    *)
(* strings, so that splitting and replacing are computed as the code       *)
(* computes them.  A path is a sequence of component strings relative to   *)
(* PACKAGE_CACHE_BASE; <<>> is the cache root itself.                      *)
(* An Optional value is <<>> (None) or <<v>>.                              *)
(*                                                                         *)
(* Spec runs invocations of main one after another (a package request, a   *)
(* purge, a command line without a package).  SpecCalls calls              *)
(* parse_package_spec, find_executable_in_prefix, get_active and the       *)
(* install-prefix derivation of main directly, one call per behaviour,     *)
(* as well as the download command line and the PATH assembly.  SpecGood   *)
(* is Spec without faults and kills, under fairness; SpecRace runs two     *)
(* invocations at once; SpecLeftover lets the best-effort removal of a     *)
(* failed prefix fail; SpecSpinner is ui.Spinner with its thread.          *)
(***************************************************************************)
EXTENDS Integers, Sequences, FiniteSets, TLC

VARIABLES
    fs,        \* the filesystem under PACKAGE_CACHE_BASE: path -> kind
    host,      \* which backend commands are found here, and which of them work
    proc,      \* per invocation: position in main / yoink_package and locals
    started,   \* number of invocations started so far
    call,      \* the last direct call of a function: its name, arguments, result
    spinner    \* one ui.Spinner: its fields, its thread, the caller of start/stop

vars == <<fs, host, proc, started, call, spinner>>

\* ------------------------------------------------------------------ bounds

\* Invocations started in one behaviour.
MaxInvocations == 2
Procs == {1}

\* The hosts considered.  on_path: the backends whose check command
\* shutil.which finds; runs_ok: those whose check command, when run, exits 0.
\* No backend at all; all three working (apt is taken); apt-get found but
\* failing (dnf is taken, after two check commands have run).
Hosts ==
    { [on_path |-> {}, runs_ok |-> {}],
      [on_path |-> {"apt", "dnf", "pacman"}, runs_ok |-> {"apt", "dnf", "pacman"}],
      [on_path |-> {"apt", "dnf", "pacman"}, runs_ok |-> {"dnf", "pacman"}] }

\* The package specs typed on the command line: a bare name, a pinned
\* version, an empty version, and a version that holds path separators.
PackageSpecs ==
    { <<"f">>, <<"f", "@", "1">>, <<"f", "@">>,
      <<"f", "@", "/", ".", ".", "/", "f", "_", "l", "a", "t", "e", "s", "t">> }

\* The longest package spec handed to parse_package_spec directly.
MaxSpecLen == 3

\* ------------------------------------------------------------------- text

None == <<>>
Some(v) == <<v>>

RECURSIVE Str(_)
Str(cs) == IF cs = <<>> THEN "" ELSE Head(cs) \o Str(Tail(cs))

\* str.replace with one-character arguments.
replace(cs, old, new) == [i \in 1..Len(cs) |-> IF cs[i] = old THEN new ELSE cs[i]]

\* Python truthiness of an Optional[str]: None and "" are both false.
Truthy(opt) == opt # None /\ opt[1] # <<>>

\* A relative path string cut at "/" into its components (each a sequence of
\* characters); empty components are dropped, as pathlib does when joining.
RECURSIVE SplitChars(_, _)
SplitChars(cs, cur) ==
    IF cs = <<>> THEN (IF cur = <<>> THEN <<>> ELSE <<cur>>)
    ELSE IF Head(cs) = "/"
         THEN (IF cur = <<>> THEN <<>> ELSE <<cur>>) \o SplitChars(Tail(cs), <<>>)
         ELSE SplitChars(Tail(cs), Append(cur, Head(cs)))

\* The path (sequence of component strings) that components denote.
PathStr(parts) == [i \in 1..Len(parts) |-> Str(parts[i])]

\* Path.resolve() on the components of a path below PACKAGE_CACHE_BASE, none
\* of them a symbolic link: "." is dropped and ".." takes back the component
\* before it.  (A path that climbs above the cache root is outside this
\* model: the inputs considered never do.)
RECURSIVE resolve(_, _)
resolve(parts, acc) ==
    IF parts = <<>> THEN acc
    ELSE IF Head(parts) = <<".">> THEN resolve(Tail(parts), acc)
    ELSE IF Head(parts) = <<".", ".">>
         THEN resolve(Tail(parts), IF acc = <<>> THEN acc ELSE SubSeq(acc, 1, Len(acc) - 1))
         ELSE resolve(Tail(parts), Append(acc, Head(parts)))

\* The characters of the string literals the code concatenates.
Chars(s) ==
    CASE s = "latest" -> <<"l", "a", "t", "e", "s", "t">>
      [] s = "_latest" -> <<"_", "l", "a", "t", "e", "s", "t">>
      [] s = "yoink_dl_" -> <<"y", "o", "i", "n", "k", "_", "d", "l", "_">>
      [] s = "downloads" -> <<"d", "o", "w", "n", "l", "o", "a", "d", "s">>
      [] s = "apt" -> <<"a", "p", "t">>
      [] s = "dnf" -> <<"d", "n", "f">>
      [] s = "pacman" -> <<"p", "a", "c", "m", "a", "n">>
      [] s \in {"0", "1", "2", "3", "4", "5", "6", "7", "8", "9"} -> <<s>>

\* ------------------------------------------------------------- filesystem

Exists(f, p) == p \in DOMAIN f
IsDir(f, p) == p \in DOMAIN f /\ f[p] = "dir"
\* A regular file, executable ("xfile") or not ("file").
IsFile(f, p) == p \in DOMAIN f /\ f[p] \in {"file", "xfile"}
\* os.access(p, os.X_OK) on a regular file.
IsExecutable(f, p) == p \in DOMAIN f /\ f[p] = "xfile"

IsPrefix(p, q) == Len(p) <= Len(q) /\ SubSeq(q, 1, Len(p)) = p
Ancestors(p) == { SubSeq(p, 1, n) : n \in 0..Len(p) }
Children(f, d) == { q \in DOMAIN f : Len(q) = Len(d) + 1 /\ IsPrefix(d, q) }

\* Only an empty directory is removed (rmdir in place of rmtree).
rmtree_shallow(f, p) ==
    IF \E q \in DOMAIN f : q # p /\ IsPrefix(p, q) THEN f
    ELSE [q \in DOMAIN f \ {p} |-> f[q]]

\* shutil.rmtree(p): p and everything below it.
rmtree(f, p) == [q \in { r \in DOMAIN f : ~IsPrefix(p, r) } |-> f[q]]

\* Path.mkdir(parents=True, exist_ok=True)
mkdir(f, p) == [q \in DOMAIN f \cup Ancestors(p) |-> IF q \in DOMAIN f THEN f[q] ELSE "dir"]

\* Path.touch(): creates an empty regular file, keeps an existing one.
touch(f, p) == [q \in DOMAIN f \cup {p} |-> IF q \in DOMAIN f THEN f[q] ELSE "file"]

\* The files a command writes below directory d: rel is a function from
\* relative paths to kinds.  Existing entries are overwritten.
WriteInto(f, d, rel) ==
    [q \in DOMAIN f \cup { d \o r : r \in DOMAIN rel } |->
        IF \E r \in DOMAIN rel : q = d \o r
        THEN rel[CHOOSE r \in DOMAIN rel : q = d \o r]
        ELSE f[q]]

\* ---------------------------------------------------------------- backends

\* The registered backends, in registration order.
RegisteredPms == <<"apt", "dnf", "pacman">>
Backends == { RegisteredPms[i] : i \in 1..Len(RegisteredPms) }

\* Every backend joins name and version with "=".
version_separator_equals(pm) == "="

version_separator(pm) ==
    CASE pm = "apt" -> "="
      [] pm = "dnf" -> "-"
      [] pm = "pacman" -> "="

\* With no backend available the first registered one is taken.
get_active_fallback(available) ==
    IF \E i \in 1..Len(RegisteredPms) : RegisteredPms[i] \in available
    THEN Some(RegisteredPms[CHOOSE i \in 1..Len(RegisteredPms) :
                  /\ RegisteredPms[i] \in available
                  /\ \A j \in 1..(i - 1) : RegisteredPms[j] \notin available])
    ELSE Some(RegisteredPms[1])

\* How subprocess.run of the check command can end once shutil.which has
\* found it: the command exits 0; it exits non-zero (CalledProcessError); the
\* file is gone when it is started (FileNotFoundError); it cannot be executed
\* (another OSError: exec format error, permission denied).
CheckOutcomes == {"ok", "nonzero", "notfound", "oserror"}

\* PackageManager.check_available on one tool: what the method returns, or
\* "raises" when an exception leaves it (only CalledProcessError and
\* FileNotFoundError are caught).
check_available_result(resolves, outcome) ==
    IF ~resolves THEN "False"
    ELSE CASE outcome = "ok" -> "True"
           [] outcome \in {"nonzero", "notfound"} -> "False"
           [] outcome = "oserror" -> "raises"

\* PackageManager.check_available on host h, whose tools either exit 0 or
\* exit non-zero: the check command is found on PATH and, run, exits 0.
check_available(h, pm) ==
    check_available_result(pm \in h.on_path,
                           IF pm \in h.runs_ok THEN "ok" ELSE "nonzero") = "True"

\* The backends of host h whose availability check passes.
Available(h) == { pm \in Backends : check_available(h, pm) }

\* The registry is walked from its end.
get_active_last(available) ==
    IF \E i \in 1..Len(RegisteredPms) : RegisteredPms[i] \in available
    THEN Some(RegisteredPms[CHOOSE i \in 1..Len(RegisteredPms) :
                  /\ RegisteredPms[i] \in available
                  /\ \A j \in (i + 1)..Len(RegisteredPms) : RegisteredPms[j] \notin available])
    ELSE None

\* PackageManager.get_active: the first registered backend that is available.
get_active(available) ==
    IF \E i \in 1..Len(RegisteredPms) : RegisteredPms[i] \in available
    THEN Some(RegisteredPms[CHOOSE i \in 1..Len(RegisteredPms) :
                  /\ RegisteredPms[i] \in available
                  /\ \A j \in 1..(i - 1) : RegisteredPms[j] \notin available])
    ELSE None

\* PackageManager.get_active over the tools of a host, from registry entry i
\* on: the first backend whose check returns True; an exception raised by a
\* check leaves get_active.
RECURSIVE get_active_walk(_, _)
get_active_walk(tools, i) ==
    IF i > Len(RegisteredPms) THEN [raised |-> FALSE, pm |-> None]
    ELSE CASE check_available_result(tools[RegisteredPms[i]].resolves,
                                     tools[RegisteredPms[i]].outcome) = "True" ->
                [raised |-> FALSE, pm |-> Some(RegisteredPms[i])]
           [] check_available_result(tools[RegisteredPms[i]].resolves,
                                     tools[RegisteredPms[i]].outcome) = "raises" ->
                [raised |-> TRUE, pm |-> None]
           [] OTHER -> get_active_walk(tools, i + 1)

\* The text a glob's "*" stands for, in the file names of this model.
GlobMids == {"", "1"}

\* download_dir.glob(pre + "*" + suf)
Glob(f, d, pre, suf) ==
    { q \in Children(f, d) : \E mid \in GlobMids : q[Len(q)] = pre \o mid \o suf }

PacmanExtensions == <<".pkg.tar.zst", ".pkg.tar.xz", ".pkg.tar.gz", ".pkg.tar.bz2", ".pkg.tar">>

\* pm.find_downloaded_archive(download_dir, pkg_name_base): the set of paths
\* the backend may return (empty: None).  APT and DNF return files[0] of an
\* unordered glob; with several matches any of them.
find_downloaded_archive(pm, f, d, base) ==
    CASE pm = "apt" ->
           IF Glob(f, d, base \o "_", ".deb") # {}
           THEN Glob(f, d, base \o "_", ".deb") ELSE Glob(f, d, base, ".deb")
      [] pm = "dnf" ->
           IF Glob(f, d, base \o "-", ".rpm") # {}
           THEN Glob(f, d, base \o "-", ".rpm") ELSE Glob(f, d, base, ".rpm")
      [] pm = "pacman" ->
           IF \E i \in 1..Len(PacmanExtensions) : Glob(f, d, base \o "-", PacmanExtensions[i]) # {}
           THEN Glob(f, d, base \o "-",
                     PacmanExtensions[CHOOSE i \in 1..Len(PacmanExtensions) :
                        /\ Glob(f, d, base \o "-", PacmanExtensions[i]) # {}
                        /\ \A j \in 1..(i - 1) : Glob(f, d, base \o "-", PacmanExtensions[j]) = {}])
           ELSE {}

\* What a download command can leave in the staging directory: an archive
\* named by the backend's convention, a file of another name, or nothing.
ArchiveName(pm, base) ==
    CASE pm = "apt" -> base \o "_" \o "1" \o ".deb"
      [] pm = "dnf" -> base \o "-" \o "1" \o ".rpm"
      [] pm = "pacman" -> base \o "-" \o "1" \o ".pkg.tar.zst"

DownloadedFiles(pm, base) ==
    { << >> :> "dir",
      <<ArchiveName(pm, base)>> :> "file",
      <<"partial.tmp">> :> "file" }

\* --------------------------------------------------------- yoink_engine.py

\* The spec is cut at its first "@" (split in place of rsplit).
parse_package_spec_first_at(spec) ==
    IF \E i \in 1..Len(spec) : spec[i] = "@"
    THEN LET k == CHOOSE i \in 1..Len(spec) :
                     spec[i] = "@" /\ \A j \in 1..(i - 1) : spec[j] # "@"
         IN  [name |-> SubSeq(spec, 1, k - 1), version |-> Some(SubSeq(spec, k + 1, Len(spec)))]
    ELSE [name |-> spec, version |-> None]

\* parse_package_spec: 'name[@version]' -> (name, version), rsplit("@", 1).
parse_package_spec(spec) ==
    IF \E i \in 1..Len(spec) : spec[i] = "@"
    THEN LET k == CHOOSE i \in 1..Len(spec) :
                     spec[i] = "@" /\ \A j \in (i + 1)..Len(spec) : spec[j] # "@"
         IN  [name |-> SubSeq(spec, 1, k - 1), version |-> Some(SubSeq(spec, k + 1, Len(spec)))]
    ELSE [name |-> spec, version |-> None]

\* usr/bin is searched before bin.
search_dirs_usr_first(prefix_path) ==
    << prefix_path \o <<"usr", "bin">>,
       prefix_path \o <<"bin">>,
       prefix_path \o <<"sbin">>,
       prefix_path \o <<"usr", "sbin">>,
       prefix_path \o <<"usr", "local", "bin">>,
       prefix_path >>

\* Only the prefix itself is searched.
search_dirs_root_only(prefix_path) == << prefix_path >>

\* The directories find_executable_in_prefix searches, in order.
search_dirs(prefix_path) ==
    << prefix_path \o <<"bin">>,
       prefix_path \o <<"usr", "bin">>,
       prefix_path \o <<"sbin">>,
       prefix_path \o <<"usr", "sbin">>,
       prefix_path \o <<"usr", "local", "bin">>,
       prefix_path >>

FoundIn(f, directory, command_name) ==
    /\ IsDir(f, directory)
    /\ IsFile(f, Append(directory, command_name))
    /\ IsExecutable(f, Append(directory, command_name))

\* bin/<command> is answered without looking.
find_executable_in_prefix_unchecked(f, prefix_path, command_name) ==
    Some(prefix_path \o <<"bin", command_name>>)

\* (The list of directories is a local of the function: it is bound once,
\* as the one element of a set, and the search works on its value.)
find_executable_in_prefix(f, prefix_path, command_name) ==
    CHOOSE found \in
        { IF \E i \in 1..Len(dirs) : FoundIn(f, dirs[i], command_name)
          THEN Some(Append(dirs[CHOOSE i \in 1..Len(dirs) :
                             /\ FoundIn(f, dirs[i], command_name)
                             /\ \A j \in 1..(i - 1) : ~FoundIn(f, dirs[j], command_name)],
                           command_name))
          ELSE None : dirs \in { search_dirs(prefix_path) } } : TRUE

\* The query string handed to the download command.
\* The separator and the version are appended whenever the spec held an "@".
pkg_name_versioned_not_none(pm, name, version) ==
    IF version # None
    THEN Str(name) \o version_separator(pm) \o Str(version[1])
    ELSE Str(name)

pkg_name_versioned(pm, name, version) ==
    IF Truthy(version)
    THEN Str(name) \o version_separator(pm) \o Str(version[1])
    ELSE Str(name)

\* pm.get_download_command(pkg_name_versioned, pkg_name_base, download_dir):
\* the argument vector of the download command (pacman goes through sudo
\* when the effective user is not root).
get_download_command(pm, versioned, download_dir, root) ==
    CASE pm = "apt" ->
           << "apt-get", "download", "-o", "Dir::Cache::archives=" \o download_dir, versioned >>
      [] pm = "dnf" ->
           << "dnf", "--setopt=install_weak_deps=False", "--quiet", "download",
              "--destdir=" \o download_dir, versioned >>
      [] pm = "pacman" ->
           (IF root THEN <<>> ELSE << "sudo" >>)
           \o << "pacman", "--noconfirm", "--quiet", "-Sddp", "--cachedir", download_dir,
                 versioned >>

\* The staging directory of one attempt, below PACKAGE_CACHE_BASE.
\* The process id is left out of the name.
temp_download_dir_name_no_pid(pm, name, version, pid, prefix_name) ==
    Chars("yoink_dl_") \o Chars(pm) \o <<"_">> \o replace(name, "/", "_") \o <<"_">>
        \o (IF Truthy(version) THEN version[1] ELSE Chars("latest"))
        \o <<"_">> \o prefix_name

temp_download_dir_name(pm, name, version, pid, prefix_name) ==
    Chars("yoink_dl_") \o Chars(pm) \o <<"_">> \o replace(name, "/", "_") \o <<"_">>
        \o (IF Truthy(version) THEN version[1] ELSE Chars("latest"))
        \o <<"_">> \o Chars(ToString(pid)) \o <<"_">> \o prefix_name

temp_download_dir(pm, name, version, pid, prefix_name) ==
    CHOOSE path \in
        { PathStr(resolved) :
            resolved \in
                { resolve(parts, <<>>) :
                    parts \in
                        { <<Chars("downloads")>> \o SplitChars(dir_name, <<>>) :
                            dir_name \in { temp_download_dir_name(pm, name, version, pid,
                                                                  prefix_name) } } } } : TRUE

\* What the extract command can unpack into the install prefix: a package
\* that ships bin/<command>, or one that ships no such executable.
Payloads(command_name) ==
    { (<<"bin">> :> "dir") @@ (<<"bin", command_name>> :> "xfile"),
      (<<"README">> :> "file") }

\* What an extract command that exits non-zero can have written before.
PartialPayloads(command_name) ==
    { (<< >> :> "dir"), (<<"bin">> :> "dir") } \cup Payloads(command_name)

\* final_user_message, by its leading words.
MsgNone == ""
MsgSnapped == "Oops! The line snapped!"
MsgRogue == "A rogue wave hit!"
\* The archive-not-found branch reports with the words of a command failure.
MsgEmpty_as_snapped == "Oops! The line snapped!"
MsgEmpty == "The line came back empty!"
MsgCaught == "Caught"

\* ------------------------------------------------------------------ cli.py

safe_pkg_name_for_dir(name) == replace(replace(name, "/", "_"), ":", "_")

version_suffix(version) ==
    IF Truthy(version) THEN <<"@">> \o version[1] ELSE Chars("_latest")

cache_subdir_name(name, version) == safe_pkg_name_for_dir(name) \o version_suffix(version)

\* The components of
\* (PACKAGE_CACHE_BASE / active_pm.name / cache_subdir_name).resolve()
\* (Each intermediate value is a local, bound once as the one element of a
\* set.)
install_prefix_parts(pm, name, version) ==
    CHOOSE resolved \in
        { resolve(parts, <<>>) :
            parts \in { <<Chars(pm)>> \o SplitChars(subdir, <<>>) :
                          subdir \in { cache_subdir_name(name, version) } } } : TRUE

install_prefix_of(pm, name, version) ==
    CHOOSE path \in { PathStr(parts) : parts \in { install_prefix_parts(pm, name, version) } } :
        TRUE

\* pathlib.Path(install_prefix).name
prefix_name_of(pm, name, version) ==
    CHOOSE last \in { IF parts = <<>> THEN <<>> ELSE parts[Len(parts)] :
                        parts \in { install_prefix_parts(pm, name, version) } } : TRUE

\* The directories main offers to PATH, relative to the install prefix.
potential_bin_dirs_relative == << "bin", "usr/bin", "sbin", "usr/sbin", "usr/local/bin" >>

\* os.pathsep.join
RECURSIVE join(_, _)
join(strs, sep) ==
    IF strs = <<>> THEN ""
    ELSE IF Len(strs) = 1 THEN strs[1]
    ELSE strs[1] \o sep \o join(Tail(strs), sep)

\* Every entry is kept, also one that is in the list already.
unique_ordered_keeps_all(entries) == entries

\* Lines 220-225: the entries in their order, each kept where it first occurs.
unique_ordered(entries) ==
    SelectSeq([i \in 1..Len(entries) |->
                  IF \E j \in 1..(i - 1) : entries[j] = entries[i] THEN "" ELSE entries[i]],
              LAMBDA e : e # "")

\* Lines 202-218: the resolved paths of the bin directories that exist in
\* the prefix, and then the prefix itself when it is a directory, is not
\* among them and directly holds an executable file.  A layout tells, of the
\* prefix on disk, what is_dir(), resolve() and the scan of the prefix answer.
collected_path_entries(layout) ==
    LET bins == SelectSeq([i \in 1..Len(potential_bin_dirs_relative) |->
                              IF layout.is_dir[i] THEN layout.resolved[i] ELSE ""],
                          LAMBDA e : e # "")
    IN  IF /\ layout.root_is_dir
           /\ \A i \in 1..Len(bins) : bins[i] # layout.root
           /\ layout.root_has_executable
        THEN Append(bins, layout.root)
        ELSE bins

\* Lines 193-232: the entries put before PATH, and PATH in the environment
\* handed to os.execvpe (env_path: Optional, None when PATH is not set).
augmented_path(layout, env_path) ==
    LET entries == unique_ordered(collected_path_entries(layout))
    IN  [ entries |-> entries,
          PATH |-> IF entries # <<>>
                   THEN Some(join(entries, ":") \o ":"
                             \o (IF env_path = None THEN "" ELSE env_path[1]))
                   ELSE env_path ]

\* ------------------------------------------------- the locals of invocation p

pkg_name_base(p) == parse_package_spec(proc[p].spec).name
pkg_version_requested(p) == parse_package_spec(proc[p].spec).version
command_to_run(p) == Str(pkg_name_base(p))
active_pm(p) == proc[p].active_pm
install_prefix(p) == install_prefix_of(active_pm(p), pkg_name_base(p), pkg_version_requested(p))
marker(p) == Append(install_prefix(p), ".yoinked")
staging(p) ==
    CHOOSE dir \in
        { temp_download_dir(active_pm(p), pkg_name_base(p), pkg_version_requested(p),
                            proc[p].pid, prefix_name) :
            prefix_name \in { prefix_name_of(active_pm(p), pkg_name_base(p),
                                             pkg_version_requested(p)) } } : TRUE

NoFs == [q \in {} |-> "dir"]

\* No function has been called directly.
NoCall == [fn |-> "", arg |-> <<>>, res |-> <<>>]

\* Lines 10-27: the number of frames of one cycle of the animation.
NumFrames == 16

\* Spinner.__init__ (lines 28-36) on a terminal or not, no thread yet; main
\* is the position of the caller of start() and stop(), thread that of
\* _spin, completed_gracefully the local of stop(), stop_idx the frame that
\* was current when stop() asked for the end (-1 before).
NewSpinner(is_tty) ==
    [ _running |-> FALSE, _stop_requested |-> FALSE, _cycle_complete_event |-> FALSE,
      current_frame_idx |-> 0, is_tty |-> is_tty, thread |-> "unstarted",
      main |-> "constructed", completed_gracefully |-> None, stop_idx |-> -1 ]

\* The spinner outside the behaviours that animate it.
NoSpinner == NewSpinner(FALSE)

\* No invocation came before.
NoPrev ==
    [spec |-> <<>>, purge_cache |-> FALSE, active_pm |-> "", fetched |-> FALSE,
     marked |-> FALSE, executable_path |-> None, end |-> "none"]

IdleProc ==
    [ pc |-> "idle", spec |-> <<>>, pid |-> 0, active_pm |-> "",
      yoink_is_needed |-> TRUE, executable_path |-> None,
      is_successful_yoink |-> FALSE, final_user_message |-> MsgNone,
      archive_file |-> None, exit_code |-> None,
      \* args.purge_cache, the success purge_cache reports, and (history)
      \* whether an OSError was raised in it
      purge_cache |-> FALSE, purge_success |-> FALSE, purge_oserror |-> FALSE,
      \* history: the subprocess.run calls of get_active in this invocation
      check_runs |-> 0,
      \* history, for stating properties: the steps taken by this invocation,
      \* what the resolver saw, and the filesystem when yoink_package was entered
      log |-> <<>>, prior |-> [exists |-> FALSE, marker |-> FALSE, exe |-> FALSE],
      fs0 |-> NoFs,
      \* history: how the invocation before this one went
      prev |-> NoPrev ]

Finished == {"idle", "exited", "execd", "killed"}

Set(p, fields) == [proc EXCEPT ![p] = fields @@ proc[p]]
Logged(p, ev) == Append(proc[p].log, ev)
InLog(p, ev) == \E i \in 1..Len(proc[p].log) : proc[p].log[i] = ev

Init ==
    /\ fs = NoFs
    /\ host \in Hosts
    /\ proc = [p \in Procs |-> IdleProc]
    /\ started = 0
    /\ call = NoCall
    /\ spinner = NoSpinner

\* ------------------------------------------------------------ cli.main

\* os.getpid(): successive invocations in one process slot get the same
\* process id again, so an invocation can meet what an earlier, killed one
\* left under the same staging name.
getpid(p) == p

\* get_active() checks every registered backend, also after one passed.
check_runs_all(h) == Cardinality(h.on_path)

\* The subprocess.run calls of one get_active() on host h: one for each
\* backend tried, up to the first available one, whose command is on PATH.
check_runs(h) ==
    LET order == 1..Len(RegisteredPms)
        tried == { i \in order : \A j \in order : j < i => ~check_available(h, RegisteredPms[j]) }
    IN  Cardinality({ i \in tried : RegisteredPms[i] \in h.on_path })

\* How invocation record r went: whether yoink_package was called, whether
\* it wrote the marker, the executable resolved, and whether the invocation
\* reached os.execvpe with a resolved executable.
Summary(r) ==
    [ spec |-> r.spec, purge_cache |-> r.purge_cache, active_pm |-> r.active_pm,
      fetched |-> r.log # <<>>,
      marked |-> \E i \in 1..Len(r.log) : r.log[i] = "touch_marker",
      executable_path |-> r.executable_path,
      end |-> IF r.pc = "execd" \/ r.exit_code = Some(127) THEN "handoff"
              ELSE IF r.pc = "exited" THEN "exited"
              ELSE IF r.pc = "killed" THEN "killed"
              ELSE "none" ]

\* The command lines considered: --purge-cache, no package spec, a spec.
Args ==
    { [purge_cache |-> TRUE, package_spec |-> <<>>],
      [purge_cache |-> FALSE, package_spec |-> <<>>] }
    \cup { [purge_cache |-> FALSE, package_spec |-> spec] : spec \in PackageSpecs }

\* Lines 19-99: the cache root is created (failing to exits 1); --purge-cache
\* goes to purge_cache; a missing package spec exits 1; the active backend is
\* chosen, and with no backend available the invocation exits 1.
Start(p) ==
    /\ proc[p].pc \in Finished
    /\ started < MaxInvocations
    /\ started' = started + 1
    /\ UNCHANGED <<host, call, spinner>>
    /\ \E args \in Args, pid \in {getpid(p)}, outcome \in {"ok", "oserror"} :
         LET new == [IdleProc EXCEPT !.spec = args.package_spec, !.pid = pid,
                                     !.purge_cache = args.purge_cache,
                                     !.prev = Summary(proc[p])]
         IN  IF outcome = "oserror"
             THEN /\ fs' = fs
                  /\ proc' = [proc EXCEPT ![p] =
                        [new EXCEPT !.pc = "exited", !.exit_code = Some(1)]]
             ELSE /\ fs' = mkdir(fs, <<>>)
                  /\ proc' = [proc EXCEPT ![p] =
                        IF args.purge_cache
                        THEN [new EXCEPT !.pc = "purge"]
                        ELSE IF args.package_spec = <<>>
                        THEN [new EXCEPT !.pc = "exited", !.exit_code = Some(1)]
                        ELSE IF get_active(Available(host)) = None
                        THEN [new EXCEPT !.pc = "exited", !.exit_code = Some(1),
                                         !.check_runs = check_runs(host)]
                        ELSE [new EXCEPT !.pc = "resolve",
                                         !.active_pm = get_active(Available(host))[1],
                                         !.check_runs = check_runs(host)]]

\* The cache root is removed and not made again.
purge_cache_no_mkdir(f, outcome) ==
    IF Exists(f, <<>>)
    THEN IF outcome = "rmtree_oserror" THEN [fs |-> f, success |-> FALSE]
         ELSE [fs |-> rmtree(f, <<>>), success |-> outcome = "ok"]
    ELSE [fs |-> f, success |-> TRUE]

\* yoink_engine.purge_cache: an existing cache root is removed with all it
\* holds and made again; an OSError from either step is reported as a
\* failure.  A root that does not exist is left alone and success reported.
purge_cache(f, outcome) ==
    IF Exists(f, <<>>)
    THEN CASE outcome = "ok" -> [fs |-> mkdir(rmtree(f, <<>>), <<>>), success |-> TRUE]
           [] outcome = "rmtree_oserror" -> [fs |-> f, success |-> FALSE]
           [] outcome = "mkdir_oserror" -> [fs |-> rmtree(f, <<>>), success |-> FALSE]
    ELSE [fs |-> f, success |-> TRUE]

\* Lines 58-60: purge_cache() runs and the invocation exits 0.
PurgeCache(p) ==
    /\ proc[p].pc = "purge"
    /\ \E outcome \in {"ok", "rmtree_oserror", "mkdir_oserror"} :
         /\ fs' = purge_cache(fs, outcome).fs
         /\ proc' = Set(p, [pc |-> "exited", exit_code |-> Some(0),
                            purge_success |-> purge_cache(fs, outcome).success,
                            purge_oserror |-> (Exists(fs, <<>>) /\ outcome # "ok")])
    /\ UNCHANGED <<host, started, call, spinner>>

\* The marker is not asked for: any existing prefix counts.
has_marker_unchecked(f, p) == Exists(f, install_prefix(p))

\* Line 119: the prefix exists and holds the completion marker.
has_marker(f, p) == Exists(f, install_prefix(p)) /\ IsFile(f, marker(p))

\* The existing prefix is kept.
discard_prefix_skipped(f, prefix_path) == f

\* Lines 110-116, 142, 145-152: an existing prefix is removed.
discard_prefix(f, prefix_path) == IF Exists(f, prefix_path) THEN rmtree(f, prefix_path) ELSE f

\* The cache is never consulted: every invocation fetches.
resolve_yoink_is_needed_always(f, p) == TRUE

\* A requested version does not bypass the cache check.
resolve_yoink_is_needed_cache_first(f, p) ==
    IF has_marker(f, p)
    THEN find_executable_in_prefix(f, install_prefix(p), command_to_run(p)) = None
    ELSE TRUE

\* The marker alone decides; the locator's answer is not used.
resolve_yoink_is_needed_marker_only(f, p) ==
    IF Truthy(pkg_version_requested(p)) THEN TRUE ELSE ~has_marker(f, p)

\* Lines 102-153: the value of yoink_is_needed the resolver ends with.
resolve_yoink_is_needed(f, p) ==
    IF Truthy(pkg_version_requested(p)) THEN TRUE
    ELSE IF has_marker(f, p)
         THEN find_executable_in_prefix(f, install_prefix(p), command_to_run(p)) = None
         ELSE TRUE

\* Lines 101-153: the cache resolver.  Every branch that asks for a fetch
\* has removed an existing install prefix; the reuse branch touches nothing.
CacheResolver(p) ==
    /\ proc[p].pc = "resolve"
    /\ LET found == find_executable_in_prefix(fs, install_prefix(p), command_to_run(p))
           seen == [exists |-> Exists(fs, install_prefix(p)),
                    marker |-> IsFile(fs, marker(p)),
                    exe |-> found # None]
       IN  IF resolve_yoink_is_needed(fs, p)
           THEN /\ fs' = discard_prefix(fs, install_prefix(p))
                /\ proc' = Set(p, [pc |-> "y_mkdir", yoink_is_needed |-> TRUE,
                                   executable_path |-> None, prior |-> seen])
           ELSE /\ fs' = fs
                /\ proc' = Set(p, [pc |-> "exec", yoink_is_needed |-> FALSE,
                                   executable_path |-> found, prior |-> seen])
    /\ UNCHANGED <<host, started, call, spinner>>

\* ----------------------------------------------- yoink_engine.yoink_package

\* The exit status is not checked.
run_cmd_never_raises(outcome, check) == FALSE

\* _run_cmd: subprocess.run(..., check=check) raises CalledProcessError when
\* the command, having run to completion, exited non-zero.
run_cmd_raises(outcome, check) == check /\ outcome = "nonzero"

\* except subprocess.CalledProcessError (lines 143-164)
CalledProcessError(p, ev) ==
    Set(p, [pc |-> "y_finally", is_successful_yoink |-> FALSE,
            final_user_message |-> MsgSnapped, log |-> Logged(p, ev)])

\* No except Exception: the fault leaves yoink_package and ends the process.
UnexpectedError_propagates(p, ev) ==
    Set(p, [pc |-> "exited", exit_code |-> Some(1), is_successful_yoink |-> FALSE,
            final_user_message |-> MsgRogue, log |-> Logged(p, ev)])

\* except Exception (lines 166-181)
UnexpectedError(p, ev) ==
    Set(p, [pc |-> "y_finally", is_successful_yoink |-> FALSE,
            final_user_message |-> MsgRogue, log |-> Logged(p, ev)])

\* The install prefix is created together with the staging directory.
YoinkMkdirStaging_and_prefix(p) ==
    /\ proc[p].pc = "y_mkdir"
    /\ \E outcome \in {"ok", "oserror"} :
         IF outcome = "ok"
         THEN /\ fs' = mkdir(mkdir(fs, staging(p)), install_prefix(p))
              /\ proc' = Set(p, [pc |-> "y_download", is_successful_yoink |-> FALSE,
                                 final_user_message |-> MsgNone, fs0 |-> fs,
                                 log |-> Logged(p, "mkdir_staging")])
         ELSE /\ fs' = fs
              /\ proc' = [UnexpectedError(p, "mkdir_staging_oserror") EXCEPT ![p].fs0 = fs]
    /\ UNCHANGED <<host, started, call, spinner>>

\* Lines 81-108: entry, and the staging directory is created.
YoinkMkdirStaging(p) ==
    /\ proc[p].pc = "y_mkdir"
    /\ \E outcome \in {"ok", "oserror"} :
         IF outcome = "ok"
         THEN /\ fs' = mkdir(fs, staging(p))
              /\ proc' = Set(p, [pc |-> "y_download", is_successful_yoink |-> FALSE,
                                 final_user_message |-> MsgNone, fs0 |-> fs,
                                 log |-> Logged(p, "mkdir_staging")])
         ELSE /\ fs' = fs
              /\ proc' = [UnexpectedError(p, "mkdir_staging_oserror") EXCEPT ![p].fs0 = fs]
    /\ UNCHANGED <<host, started, call, spinner>>

\* Lines 110-115: the download command runs to completion.
YoinkDownload(p) ==
    /\ proc[p].pc = "y_download"
    /\ \E outcome \in {"ok", "nonzero", "oserror"},
          files \in DownloadedFiles(active_pm(p), Str(pkg_name_base(p))) :
         IF outcome = "oserror"
         THEN /\ fs' = fs
              /\ proc' = UnexpectedError(p, "download_oserror")
         ELSE /\ fs' = WriteInto(fs, staging(p), files)
              /\ proc' = IF run_cmd_raises(outcome, TRUE)
                         THEN CalledProcessError(p, "download_nonzero")
                         ELSE Set(p, [pc |-> "y_find",
                                      log |-> Logged(p, "download_" \o outcome)])
    /\ UNCHANGED <<host, started, call, spinner>>

\* Lines 117-126: the backend looks for the archive; none is a failure with
\* its own message, and the else branch is not entered.
YoinkFindArchive(p) ==
    /\ proc[p].pc = "y_find"
    /\ LET files == find_downloaded_archive(active_pm(p), fs, staging(p), Str(pkg_name_base(p)))
       IN  IF files = {}
           THEN proc' = Set(p, [pc |-> "y_finally", is_successful_yoink |-> FALSE,
                                final_user_message |-> MsgEmpty,
                                log |-> Logged(p, "archive_none")])
           ELSE \E archive \in files :
                  proc' = Set(p, [pc |-> "y_mkprefix", archive_file |-> Some(archive),
                                  log |-> Logged(p, "archive_found")])
    /\ UNCHANGED <<fs, host, started, call, spinner>>

\* The marker is written when the install prefix is created.
YoinkMkdirPrefix_marks(p) ==
    /\ proc[p].pc = "y_mkprefix"
    /\ \E outcome \in {"ok", "oserror"} :
         IF outcome = "ok"
         THEN /\ fs' = touch(mkdir(fs, install_prefix(p)), marker(p))
              /\ proc' = Set(p, [pc |-> "y_extract", log |-> Logged(p, "mkdir_prefix")])
         ELSE /\ fs' = fs
              /\ proc' = UnexpectedError(p, "mkdir_prefix_oserror")
    /\ UNCHANGED <<host, started, call, spinner>>

\* Line 131: the install prefix is created.
YoinkMkdirPrefix(p) ==
    /\ proc[p].pc = "y_mkprefix"
    /\ \E outcome \in {"ok", "oserror"} :
         IF outcome = "ok"
         THEN /\ fs' = mkdir(fs, install_prefix(p))
              /\ proc' = Set(p, [pc |-> "y_extract", log |-> Logged(p, "mkdir_prefix")])
         ELSE /\ fs' = fs
              /\ proc' = UnexpectedError(p, "mkdir_prefix_oserror")
    /\ UNCHANGED <<host, started, call, spinner>>

\* Lines 132-135: the extract command runs to completion.
YoinkExtract(p) ==
    /\ proc[p].pc = "y_extract"
    /\ \E outcome \in {"ok", "nonzero", "oserror"} :
         IF outcome = "oserror"
         THEN /\ fs' = fs
              /\ proc' = UnexpectedError(p, "extract_oserror")
         ELSE \E payload \in (IF outcome = "ok" THEN Payloads(command_to_run(p))
                                                ELSE PartialPayloads(command_to_run(p))) :
                /\ fs' = WriteInto(fs, install_prefix(p), payload)
                /\ proc' = IF run_cmd_raises(outcome, TRUE)
                           THEN CalledProcessError(p, "extract_nonzero")
                           ELSE Set(p, [pc |-> "y_touch",
                                        log |-> Logged(p, "extract_" \o outcome)])
    /\ UNCHANGED <<host, started, call, spinner>>

\* Lines 137-141: the completion marker is written and success recorded.
YoinkTouchMarker(p) ==
    /\ proc[p].pc = "y_touch"
    /\ \E outcome \in {"ok", "oserror"} :
         IF outcome = "ok"
         THEN /\ fs' = touch(fs, marker(p))
              /\ proc' = Set(p, [pc |-> "y_finally", is_successful_yoink |-> TRUE,
                                 final_user_message |-> MsgCaught,
                                 log |-> Logged(p, "touch_marker")])
         ELSE /\ fs' = fs
              /\ proc' = UnexpectedError(p, "touch_marker_oserror")
    /\ UNCHANGED <<host, started, call, spinner>>

\* A failed attempt removes the directory that holds the install prefix.
cleanup_prefix_parent(f, prefix_path, success) ==
    IF ~success /\ Exists(f, prefix_path)
    THEN rmtree(f, SubSeq(prefix_path, 1, Len(prefix_path) - 1)) ELSE f

\* The install prefix of a failed attempt is left in place.
cleanup_prefix_skipped(f, prefix_path, success) == f

\* Lines 195-201: a failed attempt removes the install prefix.
cleanup_prefix(f, prefix_path, success) ==
    IF ~success /\ Exists(f, prefix_path) THEN rmtree(f, prefix_path) ELSE f

\* The staging directory is left in place.
cleanup_staging_skipped(f, dir) == f

\* Lines 203-204: the staging directory is removed.
cleanup_staging(f, dir) == IF Exists(f, dir) THEN rmtree(f, dir) ELSE f

YoinkFinallyPrefix(p) ==
    /\ proc[p].pc = "y_finally"
    /\ fs' = cleanup_prefix(fs, install_prefix(p), proc[p].is_successful_yoink)
    /\ proc' = Set(p, [pc |-> "y_rmstaging"])
    /\ UNCHANGED <<host, started, call, spinner>>

\* Lines 203-206: staging removed, then return is_successful_yoink.
YoinkFinallyStaging(p) ==
    /\ proc[p].pc = "y_rmstaging"
    /\ fs' = cleanup_staging(fs, staging(p))
    /\ proc' = Set(p, [pc |-> "returned"])
    /\ UNCHANGED <<host, started, call, spinner>>

\* ------------------------------------------------------- cli.main, continued

\* A failed fetch is tried again.
AfterYoink_retries(p) ==
    /\ proc[p].pc = "returned"
    /\ LET found == find_executable_in_prefix(fs, install_prefix(p), command_to_run(p))
       IN  IF ~proc[p].is_successful_yoink
           THEN proc' = Set(p, [pc |-> "y_mkdir"])
           ELSE IF found = None
           THEN proc' = Set(p, [pc |-> "exited", exit_code |-> Some(1)])
           ELSE proc' = Set(p, [pc |-> "exec", executable_path |-> found])
    /\ UNCHANGED <<fs, host, started, call, spinner>>

\* Lines 155-184: a failed fetch exits 1; after a successful one the
\* executable is looked up, and not finding it exits 1.
AfterYoink(p) ==
    /\ proc[p].pc = "returned"
    /\ LET found == find_executable_in_prefix(fs, install_prefix(p), command_to_run(p))
       IN  IF ~proc[p].is_successful_yoink
           THEN proc' = Set(p, [pc |-> "exited", exit_code |-> Some(1)])
           ELSE IF found = None
           THEN proc' = Set(p, [pc |-> "exited", exit_code |-> Some(1)])
           ELSE proc' = Set(p, [pc |-> "exec", executable_path |-> found])
    /\ UNCHANGED <<fs, host, started, call, spinner>>

\* Lines 186-308: os.execvpe replaces the process, or fails and exits 127.
Exec(p) ==
    /\ proc[p].pc = "exec"
    /\ IF proc[p].executable_path = None
       THEN proc' = Set(p, [pc |-> "exited", exit_code |-> Some(1)])
       ELSE \E outcome \in {"ok", "oserror"} :
              proc' = IF outcome = "ok"
                      THEN Set(p, [pc |-> "execd"])
                      ELSE Set(p, [pc |-> "exited", exit_code |-> Some(127)])
    /\ UNCHANGED <<fs, host, started, call, spinner>>

\* The invocation is killed where it stands; nothing is cleaned up.  (Of
\* its record the request and the history of its steps are kept.)
Kill(p) ==
    /\ proc[p].pc \notin Finished
    /\ proc' = [proc EXCEPT ![p] =
          [IdleProc EXCEPT !.pc = "killed", !.spec = proc[p].spec, !.pid = proc[p].pid,
                           !.active_pm = proc[p].active_pm, !.log = proc[p].log]]
    /\ UNCHANGED <<fs, host, started, call, spinner>>

Next ==
    \E p \in Procs :
        \/ Start(p)
        \/ PurgeCache(p)
        \/ CacheResolver(p)
        \/ YoinkMkdirStaging(p)
        \/ YoinkDownload(p)
        \/ YoinkFindArchive(p)
        \/ YoinkMkdirPrefix(p)
        \/ YoinkExtract(p)
        \/ YoinkTouchMarker(p)
        \/ YoinkFinallyPrefix(p)
        \/ YoinkFinallyStaging(p)
        \/ AfterYoink(p)
        \/ Exec(p)
        \/ Kill(p)

Spec == Init /\ [][Next]_vars

\* ------------------------------------------- the functions, called directly
\* One behaviour makes one call, of one function on one argument.

\* The arguments considered.
SpecChars == {"f", "@", "1"}
ParseInputs == UNION { [1..n -> SpecChars] : n \in 0..MaxSpecLen }

AvailableSets == SUBSET Backends

\* The check tool of a backend: not on PATH, or on PATH with one of the ways
\* its run can end.
ToolStates ==
    { [resolves |-> FALSE, outcome |-> "ok"] }
    \cup { [resolves |-> TRUE, outcome |-> o] : o \in CheckOutcomes }
Tools == [Backends -> ToolStates]

\* Install prefixes as the PATH assembly meets them: any of the five bin
\* directories present or not; plain directories, or (usr-merged package)
\* bin and sbin symbolic links to usr/bin and usr/sbin; the prefix with or
\* without an executable file directly in it, or gone.
PathPrefix == "/c/apt/f_latest"
BinDirPath(i) == PathPrefix \o "/" \o potential_bin_dirs_relative[i]
PathLayout(is_dir, merged, root_is_dir, has_executable) ==
    [ is_dir |-> is_dir,
      resolved |-> [i \in 1..5 |-> IF merged /\ i \in {1, 3} THEN BinDirPath(i + 1)
                                   ELSE BinDirPath(i)],
      root |-> PathPrefix, root_is_dir |-> root_is_dir,
      root_has_executable |-> root_is_dir /\ has_executable ]
PathLayouts ==
    { PathLayout(c[1], c[2], c[3], c[4]) :
        c \in { c \in [1..5 -> BOOLEAN] \X BOOLEAN \X BOOLEAN \X BOOLEAN :
                  /\ c[2] => (c[1][1] = c[1][2] /\ c[1][3] = c[1][4])
                  /\ (\E i \in 1..5 : c[1][i]) => c[3] } }
EnvPaths == { None, Some(""), Some("/usr/bin:/bin") }

\* Requests handed to the download command: a name, and no version, an
\* empty one or a version.
QueryNames == { <<"f">>, <<"a", "-", "b">> }
QueryVersions == { None, Some(<<>>), Some(<<"1">>), Some(<<"1", ".", "2">>) }

RequestNames == { <<"a">>, <<"a", "/", "b">>, <<"a", ":", "b">>, <<"a", "_", "b">> }
RequestVersions == { None, Some(<<"1">>), Some(<<"2">>) }
Requests ==
    { [pm |-> pm, name |-> name, version |-> version] :
        pm \in Backends, name \in RequestNames, version \in RequestVersions }

\* Install prefixes to search: for each of the six places, the command is
\* absent, a plain file or an executable file there; some trees also hold
\* the command in places that are not searched, or another executable.
LocatePrefix == <<"apt", "f_latest">>
LocateCommand == "f"
LocatePlaces ==
    << <<"bin">>, <<"usr", "bin">>, <<"sbin">>, <<"usr", "sbin">>, <<"usr", "local", "bin">>,
       <<>> >>
LocateDecoys ==
    { NoFs,
      (<<"lib">> :> "dir") @@ (<<"lib", LocateCommand>> :> "xfile"),
      (<<"bin">> :> "dir") @@ (<<"bin", "g">> :> "xfile"),
      (<<"opt">> :> "dir") @@ (<<"opt", "bin">> :> "dir")
          @@ (<<"opt", "bin", LocateCommand>> :> "xfile") }

RECURSIVE LocateTree(_, _, _)
LocateTree(f, kinds, i) ==
    IF i > Len(LocatePlaces) THEN f
    ELSE LocateTree(
           IF kinds[i] = "none" THEN f
           ELSE WriteInto(mkdir(f, LocatePrefix \o LocatePlaces[i]),
                          LocatePrefix \o LocatePlaces[i],
                          (<<LocateCommand>> :> kinds[i])),
           kinds, i + 1)

LocateTrees ==
    { LocateTree(WriteInto(mkdir(NoFs, LocatePrefix), LocatePrefix, decoy), kinds, 1) :
        kinds \in [1..Len(LocatePlaces) -> {"none", "file", "xfile"}],
        decoy \in LocateDecoys }

InitCalls ==
    /\ fs = NoFs
    /\ host = [on_path |-> {}, runs_ok |-> {}]
    /\ proc = [p \in Procs |-> IdleProc]
    /\ started = 0
    /\ call = NoCall
    /\ spinner = NoSpinner

CallParsePackageSpec ==
    /\ call = NoCall
    /\ \E spec \in ParseInputs :
         call' = [fn |-> "parse_package_spec", arg |-> spec, res |-> parse_package_spec(spec)]
    /\ UNCHANGED <<fs, host, proc, started, spinner>>

CallGetActive ==
    /\ call = NoCall
    /\ \E available \in AvailableSets :
         call' = [fn |-> "get_active", arg |-> available, res |-> get_active(available)]
    /\ UNCHANGED <<fs, host, proc, started, spinner>>

CallGetActiveWalk ==
    /\ call = NoCall
    /\ \E tools \in Tools :
         call' = [fn |-> "get_active_walk", arg |-> tools, res |-> get_active_walk(tools, 1)]
    /\ UNCHANGED <<fs, host, proc, started, spinner>>

\* Lines 93-115 of yoink_package: the query string is built and handed to
\* the backend's download command.
CallGetDownloadCommand ==
    /\ call = NoCall
    /\ \E pm \in Backends, name \in QueryNames, version \in QueryVersions, root \in BOOLEAN :
         call' = [fn |-> "get_download_command",
                  arg |-> [pm |-> pm, name |-> name, version |-> version, root |-> root],
                  res |-> get_download_command(pm, pkg_name_versioned(pm, name, version),
                                               "downloads/d", root)]
    /\ UNCHANGED <<fs, host, proc, started, spinner>>

\* The PATH main gives the executed program, over prefixes and environments.
CallAugmentedPath ==
    /\ call = NoCall
    /\ \E layout \in PathLayouts, env_path \in EnvPaths :
         call' = [fn |-> "augmented_path",
                  arg |-> [layout |-> layout, env_path |-> env_path],
                  res |-> augmented_path(layout, env_path)]
    /\ UNCHANGED <<fs, host, proc, started, spinner>>

\* install_prefix as main derives it, for two requests.
CallInstallPrefix ==
    /\ call = NoCall
    /\ \E r1 \in Requests, r2 \in Requests :
         call' = [fn |-> "install_prefix", arg |-> <<r1, r2>>,
                  res |-> << install_prefix_of(r1.pm, r1.name, r1.version),
                             install_prefix_of(r2.pm, r2.name, r2.version) >>]
    /\ UNCHANGED <<fs, host, proc, started, spinner>>

CallFindExecutableInPrefix ==
    /\ call = NoCall
    /\ \E tree \in LocateTrees :
         call' = [fn |-> "find_executable_in_prefix", arg |-> tree,
                  res |-> find_executable_in_prefix(tree, LocatePrefix, LocateCommand)]
    /\ UNCHANGED <<fs, host, proc, started, spinner>>

NextCalls ==
    \/ CallParsePackageSpec
    \/ CallGetActive
    \/ CallGetActiveWalk
    \/ CallGetDownloadCommand
    \/ CallAugmentedPath
    \/ CallInstallPrefix
    \/ CallFindExecutableInPrefix

SpecCalls == InitCalls /\ [][NextCalls]_vars

\* -------------------------------------------- a host where nothing goes wrong

\* A step of invocation p in which nothing goes wrong: no OSError, no kill,
\* the download command exits 0 and leaves an archive the backend finds, the
\* extract command exits 0 and unpacks bin/<command>, os.execvpe succeeds.
GoodStep(p) ==
    /\ proc'[p].pc # "killed"
    /\ proc'[p].final_user_message \in {MsgNone, MsgCaught}
    /\ proc'[p].pc = "exited" =>
          \/ proc'[p].purge_cache /\ proc'[p].exit_code = Some(0) /\ proc'[p].purge_success
          \/ ~proc'[p].purge_cache /\ proc'[p].spec = <<>> /\ Exists(fs', <<>>)
          \/ ~proc'[p].purge_cache /\ Available(host) = {} /\ Exists(fs', <<>>)
    /\ proc'[p].pc = "y_find" =>
          find_downloaded_archive(active_pm(p), fs', staging(p), Str(pkg_name_base(p))) # {}
    /\ proc'[p].pc = "y_touch" =>
          FoundIn(fs', Append(install_prefix(p), "bin"), command_to_run(p))

NextGood ==
    \E p \in Procs :
        \/ Start(p) /\ GoodStep(p)
        \/ PurgeCache(p) /\ GoodStep(p)
        \/ CacheResolver(p) /\ GoodStep(p)
        \/ YoinkMkdirStaging(p) /\ GoodStep(p)
        \/ YoinkDownload(p) /\ GoodStep(p)
        \/ YoinkFindArchive(p) /\ GoodStep(p)
        \/ YoinkMkdirPrefix(p) /\ GoodStep(p)
        \/ YoinkExtract(p) /\ GoodStep(p)
        \/ YoinkTouchMarker(p) /\ GoodStep(p)
        \/ YoinkFinallyPrefix(p) /\ GoodStep(p)
        \/ YoinkFinallyStaging(p) /\ GoodStep(p)
        \/ AfterYoink(p) /\ GoodStep(p)
        \/ Exec(p) /\ GoodStep(p)

\* Every step waits for the one before to return and then runs: an
\* invocation that can take a step takes one.
SpecGood == Init /\ [][NextGood]_vars /\ WF_vars(NextGood)

\* ------------------------------------------------- two invocations at once

\* Two processes, each running the tool once, at the same time, on one
\* host; nothing orders their steps (the code takes no lock).
RaceProcs == {1, 2}

\* What the two ask for: process 1 for f, process 2 for the same, or for
\* f@1, which has another cache key.
RaceSpecs(p) == IF p = 1 THEN { <<"f">> } ELSE { <<"f">>, <<"f", "@", "1">> }

InitRace ==
    /\ fs = NoFs
    /\ host = [on_path |-> Backends, runs_ok |-> Backends]
    /\ proc = [p \in RaceProcs |-> IdleProc]
    /\ started = 0
    /\ call = NoCall
    /\ spinner = NoSpinner

\* Process p starts its invocation, which gets as far as the resolver.
StartRace(p) ==
    /\ proc[p].pc = "idle"
    /\ Start(p)
    /\ proc'[p].pc = "resolve"
    /\ proc'[p].spec \in RaceSpecs(p)

NextRace ==
    \E p \in RaceProcs :
        \/ StartRace(p)
        \/ CacheResolver(p)
        \/ YoinkMkdirStaging(p)
        \/ YoinkDownload(p)
        \/ YoinkFindArchive(p)
        \/ YoinkMkdirPrefix(p)
        \/ YoinkExtract(p)
        \/ YoinkTouchMarker(p)
        \/ YoinkFinallyPrefix(p)
        \/ YoinkFinallyStaging(p)
        \/ AfterYoink(p)
        \/ Exec(p)
        \/ Kill(p)

SpecRace == InitRace /\ [][NextRace]_vars

\* ------------------------------------------- removal that does not succeed
\* The invocations of Spec, one at a time and none killed, on a host whose
\* backends all work, where shutil.rmtree(..., ignore_errors=True) removes
\* what it can and keeps quiet about the rest, and where the print of the
\* verbose success line can fail like any write to stdout.

\* p and everything below it.
Subtree(f, p) == { q \in DOMAIN f : IsPrefix(p, q) }

\* shutil.rmtree(p, ignore_errors=True): every outcome in which some entries
\* of the tree could not be removed; a directory that keeps an entry stays.
rmtree_ignore_errors(f, p) ==
    { [q \in DOMAIN f \ removed |-> f[q]] :
        removed \in { R \in SUBSET Subtree(f, p) :
                        \A q \in R : \A r \in Subtree(f, p) : IsPrefix(q, r) => r \in R } }

\* Lines 195-201 with a removal that can fail in part or as a whole.
cleanup_prefix_best_effort(f, prefix_path, success) ==
    IF ~success /\ Exists(f, prefix_path) THEN rmtree_ignore_errors(f, prefix_path) ELSE {f}

InitLeftover ==
    /\ fs = NoFs
    /\ host = [on_path |-> Backends, runs_ok |-> Backends]
    /\ proc = [p \in Procs |-> IdleProc]
    /\ started = 0
    /\ call = NoCall
    /\ spinner = NoSpinner

\* Lines 137-141: the marker is written, success recorded, and with
\* --verbose the success line printed; a print that raises (stdout closed
\* or broken by then) is caught by except Exception, which records failure.
\* args.verbose is read by the model at this step only.
YoinkTouchMarkerVerbose(p) ==
    /\ proc[p].pc = "y_touch"
    /\ \E verbose \in BOOLEAN, outcome \in {"ok", "oserror", "print_oserror"} :
         /\ outcome = "print_oserror" => verbose
         /\ CASE outcome = "ok" ->
                  /\ fs' = touch(fs, marker(p))
                  /\ proc' = Set(p, [pc |-> "y_finally", is_successful_yoink |-> TRUE,
                                     final_user_message |-> MsgCaught,
                                     log |-> Logged(p, "touch_marker")])
              [] outcome = "oserror" ->
                  /\ fs' = fs
                  /\ proc' = UnexpectedError(p, "touch_marker_oserror")
              [] outcome = "print_oserror" ->
                  /\ fs' = touch(fs, marker(p))
                  /\ proc' = UnexpectedError(p, "print_oserror")
    /\ UNCHANGED <<host, started, call, spinner>>

\* Lines 195-201: the prefix of a failed attempt is removed as far as it
\* can be.
YoinkFinallyPrefixBestEffort(p) ==
    /\ proc[p].pc = "y_finally"
    /\ fs' \in cleanup_prefix_best_effort(fs, install_prefix(p), proc[p].is_successful_yoink)
    /\ proc' = Set(p, [pc |-> "y_rmstaging"])
    /\ UNCHANGED <<host, started, call, spinner>>

NextLeftover ==
    \E p \in Procs :
        \/ Start(p)
        \/ PurgeCache(p)
        \/ CacheResolver(p)
        \/ YoinkMkdirStaging(p)
        \/ YoinkDownload(p)
        \/ YoinkFindArchive(p)
        \/ YoinkMkdirPrefix(p)
        \/ YoinkExtract(p)
        \/ YoinkTouchMarkerVerbose(p)
        \/ YoinkFinallyPrefixBestEffort(p)
        \/ YoinkFinallyStaging(p)
        \/ AfterYoink(p)
        \/ Exec(p)

SpecLeftover == InitLeftover /\ [][NextLeftover]_vars

\* ------------------------------------------------------------- ui.Spinner
\* One spinner, its caller and its thread, a step per statement.

InitSpinner ==
    /\ fs = NoFs
    /\ host = [on_path |-> {}, runs_ok |-> {}]
    /\ proc = [p \in Procs |-> IdleProc]
    /\ started = 0
    /\ call = NoCall
    /\ \E is_tty \in BOOLEAN : spinner = NewSpinner(is_tty)

\* Lines 64-76: start(); off a terminal it prints and starts no thread.
SpinnerStart ==
    /\ spinner.main = "constructed"
    /\ spinner' = IF ~spinner.is_tty THEN [spinner EXCEPT !.main = "started"]
                  ELSE [spinner EXCEPT !._stop_requested = FALSE,
                                       !._cycle_complete_event = FALSE,
                                       !._running = TRUE,
                                       !.current_frame_idx = 0,
                                       !.thread = "l40",
                                       !.main = "started"]
    /\ UNCHANGED <<fs, host, proc, started, call>>

\* Line 40.
SpinInit ==
    /\ spinner.thread = "l40"
    /\ spinner' = [spinner EXCEPT !.current_frame_idx = 0, !.thread = "l41"]
    /\ UNCHANGED <<fs, host, proc, started, call>>

\* Line 41: the loop goes on while _running.
SpinWhile ==
    /\ spinner.thread = "l41"
    /\ spinner' = [spinner EXCEPT !.thread = IF spinner._running THEN "l42" ELSE "ended"]
    /\ UNCHANGED <<fs, host, proc, started, call>>

\* Line 42: asked to stop and at the first frame.
SpinCheckBeforeFrame ==
    /\ spinner.thread = "l42"
    /\ spinner' = [spinner EXCEPT !.thread =
                       IF spinner._stop_requested /\ spinner.current_frame_idx = 0
                       THEN "l43" ELSE "l47"]
    /\ UNCHANGED <<fs, host, proc, started, call>>

\* Lines 43 and 61.
SpinClearRunning ==
    /\ spinner.thread \in {"l43", "l61"}
    /\ spinner' = [spinner EXCEPT !._running = FALSE,
                                  !.thread = IF spinner.thread = "l43" THEN "l44" ELSE "l62"]
    /\ UNCHANGED <<fs, host, proc, started, call>>

\* Lines 44-45 (set, break) and 62 (set, back to the loop test).
SpinSetEvent ==
    /\ spinner.thread \in {"l44", "l62"}
    /\ spinner' = [spinner EXCEPT !._cycle_complete_event = TRUE,
                                  !.thread = IF spinner.thread = "l44" THEN "ended" ELSE "l41"]
    /\ UNCHANGED <<fs, host, proc, started, call>>

\* Lines 47-53: the frame is printed.
SpinPrint ==
    /\ spinner.thread = "l47"
    /\ spinner' = [spinner EXCEPT !.thread = "l55"]
    /\ UNCHANGED <<fs, host, proc, started, call>>

\* Line 55.
SpinSleep ==
    /\ spinner.thread = "l55"
    /\ spinner' = [spinner EXCEPT !.thread = "l56"]
    /\ UNCHANGED <<fs, host, proc, started, call>>

\* Lines 56-58.
SpinAdvance ==
    /\ spinner.thread = "l56"
    /\ spinner' = [spinner EXCEPT !.current_frame_idx = (@ + 1) % NumFrames,
                                  !.thread = "l60"]
    /\ UNCHANGED <<fs, host, proc, started, call>>

\* The thread gives up after any frame once it has been asked to stop.
SpinCheckAfterFrame_any_frame ==
    /\ spinner.thread = "l60"
    /\ spinner' = [spinner EXCEPT !.thread =
                       IF spinner._stop_requested THEN "l61" ELSE "l41"]
    /\ UNCHANGED <<fs, host, proc, started, call>>

\* Line 60: the cycle is through and stop was asked for.
SpinCheckAfterFrame ==
    /\ spinner.thread = "l60"
    /\ spinner' = [spinner EXCEPT !.thread =
                       IF spinner.current_frame_idx = 0 /\ spinner._stop_requested
                       THEN "l61" ELSE "l41"]
    /\ UNCHANGED <<fs, host, proc, started, call>>

\* Lines 85-95: stop(); off a terminal it prints and returns, a spinner that
\* does not run gets its final line only (116-122).
StopRequest ==
    /\ spinner.main = "started"
    /\ spinner' = IF ~spinner.is_tty \/ ~spinner._running
                  THEN [spinner EXCEPT !.main = "stopped"]
                  ELSE [spinner EXCEPT !._stop_requested = TRUE,
                                       !.stop_idx = spinner.current_frame_idx,
                                       !.main = "l97"]
    /\ UNCHANGED <<fs, host, proc, started, call>>

\* Line 97: is the thread alive.
StopCheckAlive ==
    /\ spinner.main = "l97"
    /\ spinner' = [spinner EXCEPT !.main =
                       IF spinner.thread \notin {"unstarted", "ended"} THEN "l99" ELSE "l109"]
    /\ UNCHANGED <<fs, host, proc, started, call>>

\* Lines 99-101: the wait returns because the event is set.
StopWaitReturns ==
    /\ spinner.main = "l99"
    /\ spinner._cycle_complete_event
    /\ spinner' = [spinner EXCEPT !.completed_gracefully = Some(TRUE), !.main = "l109"]
    /\ UNCHANGED <<fs, host, proc, started, call>>

\* Lines 98-102: the event is not set when timeout_duration has passed (the
\* thread is held up in its print or its sleep, or gets no processor).
StopWaitTimesOut ==
    /\ spinner.main = "l99"
    /\ ~spinner._cycle_complete_event
    /\ spinner' = [spinner EXCEPT !.completed_gracefully = Some(FALSE), !.main = "l103"]
    /\ UNCHANGED <<fs, host, proc, started, call>>

\* Lines 103-106: _running is cleared; the join waits 0.2 s at most and
\* returns whether the thread has ended or not.
StopGiveUp ==
    /\ spinner.main = "l103"
    /\ spinner' = [spinner EXCEPT !._running = FALSE, !.main = "l109"]
    /\ UNCHANGED <<fs, host, proc, started, call>>

\* Lines 109-122: the line is cleared and the final message printed.
StopFinish ==
    /\ spinner.main = "l109"
    /\ spinner' = [spinner EXCEPT !.main = "stopped"]
    /\ UNCHANGED <<fs, host, proc, started, call>>

\* The steps of the spinner thread (_spin, lines 39-62).
SpinThread ==
    \/ SpinInit
    \/ SpinWhile
    \/ SpinCheckBeforeFrame
    \/ SpinClearRunning
    \/ SpinSetEvent
    \/ SpinPrint
    \/ SpinSleep
    \/ SpinAdvance
    \/ SpinCheckAfterFrame

NextSpinner ==
    \/ SpinnerStart
    \/ SpinThread
    \/ StopRequest
    \/ StopCheckAlive
    \/ StopWaitReturns
    \/ StopWaitTimesOut
    \/ StopGiveUp
    \/ StopFinish

\* The started thread is scheduled again and again (threading.Thread.start,
\* line 76); nothing is assumed of the caller.
SpecSpinner == InitSpinner /\ [][NextSpinner]_vars /\ WF_vars(SpinThread)

\* ----------------------------------------------------------------- typing

TypeOK ==
    /\ host.on_path \subseteq Backends /\ host.runs_ok \subseteq Backends
    /\ started \in 0..MaxInvocations
    /\ \A q \in DOMAIN fs : fs[q] \in {"dir", "file", "xfile"}
    /\ \A p \in Procs : proc[p].pc \in
          {"idle", "resolve", "y_mkdir", "y_download", "y_find", "y_mkprefix", "y_extract",
           "y_touch", "y_finally", "y_rmstaging", "returned", "exec", "exited", "execd",
           "killed", "purge"}

\* ------------------------------------------------------- cache resolver

\* The request of invocation p names a version: its spec holds an "@" and
\* does not end in one.
IsPinned(p) ==
    /\ \E i \in 1..Len(proc[p].spec) : proc[p].spec[i] = "@"
    /\ proc[p].spec[Len(proc[p].spec)] # "@"

\* This step is the cache resolver of invocation p running to its end.
ResolverStep(p) == proc[p].pc = "resolve" /\ proc'[p].pc \in {"y_mkdir", "exec"}

\* The install prefix exists, holds the completion marker and the locator
\* finds the command in it.
CompleteEntry(f, p) ==
    /\ Exists(f, install_prefix(p))
    /\ IsFile(f, Append(install_prefix(p), ".yoinked"))
    /\ find_executable_in_prefix(f, install_prefix(p), command_to_run(p)) # None

\* Every path outside directory d is in g what it is in f.
SameOutside(f, g, d) ==
    /\ { q \in DOMAIN f : ~IsPrefix(d, q) } = { q \in DOMAIN g : ~IsPrefix(d, q) }
    /\ \A q \in DOMAIN f : ~IsPrefix(d, q) => g[q] = f[q]

\* An entry of the step log is a download or extract command having run.
RanCommand(p) ==
    \E i \in 1..Len(proc[p].log) :
        proc[p].log[i] \in {"download_ok", "download_nonzero", "download_oserror",
                            "extract_ok", "extract_nonzero", "extract_oserror"}

\* C1: for a request with no version the resolver skips the fetch exactly
\* when the install prefix exists, holds .yoinked and the locator finds the
\* command in it; then the filesystem is left as it was by the resolver and by
\* every later step of the invocation, and no download or extract command runs.
C1_ReuseExactlyWhenComplete ==
    [][\A p \in Procs :
        /\ (ResolverStep(p) /\ ~IsPinned(p)) =>
              /\ (proc'[p].pc = "exec") <=> CompleteEntry(fs, p)
              /\ (~proc'[p].yoink_is_needed) <=> CompleteEntry(fs, p)
              /\ CompleteEntry(fs, p) => fs' = fs
        /\ (proc[p].pc = "exec" /\ ~proc[p].yoink_is_needed /\ proc'[p] # proc[p]) =>
              /\ fs' = fs
              /\ ~RanCommand(p)
              /\ proc'[p].pc \in {"execd", "exited", "killed"}
      ]_vars

\* An unpinned request found its complete entry and is about to execute the
\* cached command without having fetched.
C1_Witness ==
    \E p \in Procs :
        /\ proc[p].pc = "exec"
        /\ ~IsPinned(p)
        /\ ~proc[p].yoink_is_needed
        /\ proc[p].prior = [exists |-> TRUE, marker |-> TRUE, exe |-> TRUE]
        /\ proc[p].log = <<>>
        /\ CompleteEntry(fs, p)

\* C2: an unpinned request that finds the install prefix without the
\* completion marker never reuses it, whatever the directory holds: the
\* resolver removes the prefix and goes on to the fetch.
C2_NoMarkerNoReuse ==
    [][\A p \in Procs :
        (/\ ResolverStep(p)
         /\ ~IsPinned(p)
         /\ Exists(fs, install_prefix(p))
         /\ ~Exists(fs, Append(install_prefix(p), ".yoinked")))
        => /\ proc'[p].pc = "y_mkdir"
           /\ proc'[p].yoink_is_needed
           /\ proc'[p].executable_path = None
           /\ ~Exists(fs', install_prefix(p))
      ]_vars

\* The resolver met a prefix without marker that held the executable, removed
\* it and is entering the fetch.
C2_Witness ==
    \E p \in Procs :
        /\ proc[p].pc = "y_mkdir"
        /\ ~IsPinned(p)
        /\ proc[p].prior = [exists |-> TRUE, marker |-> FALSE, exe |-> TRUE]
        /\ ~Exists(fs, install_prefix(p))

\* C3: for a request that names a version the resolver removes the install
\* prefix of that key, whatever state it was in, leaves every other path
\* alone, and goes on to the fetch.
C3_PinnedAlwaysFetches ==
    [][\A p \in Procs :
        (ResolverStep(p) /\ IsPinned(p))
        => /\ proc'[p].pc = "y_mkdir"
           /\ proc'[p].yoink_is_needed
           /\ ~Exists(fs', install_prefix(p))
           /\ SameOutside(fs, fs', install_prefix(p))
      ]_vars

\* A pinned request met a complete entry holding the executable, removed it
\* and is entering the fetch.
C3_Witness ==
    \E p \in Procs :
        /\ proc[p].pc = "y_mkdir"
        /\ IsPinned(p)
        /\ proc[p].prior = [exists |-> TRUE, marker |-> TRUE, exe |-> TRUE]
        /\ ~Exists(fs, install_prefix(p))

\* C4: an unpinned request that finds the prefix with the marker but no
\* executable of the command's name removes the prefix and goes on to the
\* fetch.
C4_CorruptEntryRefetched ==
    [][\A p \in Procs :
        (/\ ResolverStep(p)
         /\ ~IsPinned(p)
         /\ Exists(fs, install_prefix(p))
         /\ IsFile(fs, Append(install_prefix(p), ".yoinked"))
         /\ \A i \in 1..Len(search_dirs(install_prefix(p))) :
               ~FoundIn(fs, search_dirs(install_prefix(p))[i], command_to_run(p)))
        => /\ proc'[p].pc = "y_mkdir"
           /\ proc'[p].yoink_is_needed
           /\ ~Exists(fs', install_prefix(p))
      ]_vars

\* The resolver met a marked prefix without the executable, removed it and is
\* entering the fetch.
C4_Witness ==
    \E p \in Procs :
        /\ proc[p].pc = "y_mkdir"
        /\ ~IsPinned(p)
        /\ proc[p].prior = [exists |-> TRUE, marker |-> TRUE, exe |-> FALSE]
        /\ ~Exists(fs, install_prefix(p))

\* ------------------------------------------------------- fetch attempt

\* Invocation p is inside yoink_package, or has just returned from it.
InAttempt(p) ==
    proc[p].pc \in {"y_download", "y_find", "y_mkprefix", "y_extract", "y_touch",
                    "y_finally", "y_rmstaging", "returned"}

\* yoink_package has returned to main, which has not yet acted on the result.
Returned(p) == proc[p].pc = "returned"

\* The paths present now that were not when yoink_package was entered.
LeftBehind(p) == DOMAIN fs \ DOMAIN proc[p].fs0

\* The directories above path d, d itself excluded.
Parents(d) == Ancestors(d) \ {d}

\* C5: in every state of a fetch attempt in which the completion marker is in
\* the install prefix, the download command has exited zero, then an archive
\* was located, then the extract command has exited zero.
C5_MarkerOnlyAfterExtract ==
    \A p \in Procs :
        (InAttempt(p) /\ Exists(fs, Append(install_prefix(p), ".yoinked")))
        => \E i, j, k \in 1..Len(proc[p].log) :
              /\ i < j /\ j < k
              /\ proc[p].log[i] = "download_ok"
              /\ proc[p].log[j] = "archive_found"
              /\ proc[p].log[k] = "extract_ok"

\* The marker has just been written by an attempt that downloaded, located and
\* extracted.
C5_Witness ==
    \E p \in Procs :
        /\ proc[p].pc = "y_finally"
        /\ proc[p].is_successful_yoink
        /\ IsFile(fs, Append(install_prefix(p), ".yoinked"))
        /\ InLog(p, "extract_ok")

AfterAttempt(p) == proc[p].pc \in {"returned", "exec", "exited", "execd"} /\ proc[p].log # <<>>

SameUnpinnedTwice(p) ==
    /\ proc[p].pc \in {"execd", "exited"}
    /\ proc[p].prev.end \in {"handoff", "exited"}
    /\ proc[p].spec # <<>> /\ proc[p].spec = proc[p].prev.spec
    /\ ~IsPinned(p)
    /\ proc[p].active_pm # "" /\ proc[p].active_pm = proc[p].prev.active_pm

\* yoink_package was called: 1, or 0.
Fetches(fetched) == IF fetched THEN 1 ELSE 0

\* C11, as stated: any two consecutive invocations with the same unpinned
\* package spec and the same backend, with no purge between them, perform
\* exactly one fetch in total.
C11_ExactlyOneFetchInTwo ==
    \A p \in Procs :
        SameUnpinnedTwice(p) =>
            Fetches(proc[p].prev.fetched) + Fetches(proc[p].log # <<>>) = 1

\* C11, amended: when the first of two such invocations fetches and hands
\* off to the command, the second performs no fetch, so the two perform
\* exactly one fetch in total.
C11_NoSecondFetchAfterHandoff ==
    \A p \in Procs :
        (SameUnpinnedTwice(p) /\ proc[p].prev.fetched /\ proc[p].prev.end = "handoff") =>
            /\ proc[p].log = <<>>
            /\ Fetches(proc[p].prev.fetched) + Fetches(proc[p].log # <<>>) = 1

C11_Witness ==
    \E p \in Procs :
        /\ SameUnpinnedTwice(p) /\ proc[p].prev.fetched /\ proc[p].prev.end = "handoff"
        /\ proc[p].pc = "execd" /\ ~proc[p].yoink_is_needed

\* ------------------------------------------------- pinned and unpinned keys

\* The cache key of the unpinned request for the package that invocation p
\* names.
UnpinnedPrefix(p) == install_prefix_of(active_pm(p), pkg_name_base(p), None)

\* Directory d and all it holds is in g what it is in f.
SameUnder(f, g, d) ==
    /\ { q \in DOMAIN f : IsPrefix(d, q) } = { q \in DOMAIN g : IsPrefix(d, q) }
    /\ \A q \in DOMAIN f : IsPrefix(d, q) => g[q] = f[q]

\* C12: a pinned request goes through exactly one discard-then-fetch cycle
\* on its own cache key: that key is not the key of the unpinned request for
\* the same name, the resolver removes what the key held and asks for a
\* fetch, and no step of the invocation changes the unpinned entry.
C12_PinnedKeepsUnpinnedEntry ==
    [][\A p \in Procs :
         (proc[p].pc \notin Finished /\ proc[p].active_pm # "" /\ IsPinned(p)) =>
            /\ install_prefix(p) # UnpinnedPrefix(p)
            /\ SameUnder(fs, fs', UnpinnedPrefix(p))
            /\ ResolverStep(p) =>
                  /\ proc'[p].pc = "y_mkdir"
                  /\ ~Exists(fs', install_prefix(p))
            /\ Len(SelectSeq(proc'[p].log,
                             LAMBDA ev : ev \in {"mkdir_staging", "mkdir_staging_oserror"})) <= 1
      ]_vars

\* ---------------------------------------------------------- install prefix

\* C13: two requests that differ in backend, package name or version get
\* different install prefix directories.
C13_DistinctRequestsDistinctPrefixes ==
    call.fn = "install_prefix" =>
        (call.arg[1] # call.arg[2] => call.res[1] # call.res[2])

\* ------------------------------------------------------- backend registry

\* C14: get_active returns the first backend, in registration order, that
\* is available, and none when no registered backend is available.
C14_FirstAvailableInOrder ==
    call.fn = "get_active" =>
        LET available == call.arg
            order == 1..Len(RegisteredPms)
        IN  IF \A i \in order : RegisteredPms[i] \notin available
            THEN call.res = None
            ELSE /\ call.res # None
                 /\ \E i \in order :
                       /\ call.res[1] = RegisteredPms[i]
                       /\ RegisteredPms[i] \in available
                       /\ \A j \in order : j < i => RegisteredPms[j] \notin available

C14_Witness ==
    /\ call.fn = "get_active"
    /\ call.arg = {RegisteredPms[2], RegisteredPms[3]}
    /\ call.res = Some(RegisteredPms[2])

\* ------------------------------------------------------ executable locator

\* The command is an executable regular file at the i-th place of the tree.
HeldAt(tree, i) ==
    LET q == LocatePrefix \o LocatePlaces[i] \o <<LocateCommand>>
    IN  q \in DOMAIN tree /\ tree[q] = "xfile"

\* C19: the locator answers with the command's path in the first of bin,
\* usr/bin, sbin, usr/sbin, usr/local/bin and the prefix root that holds it
\* as an executable regular file, and with not-found when none of the six
\* does, wherever else in the prefix the command may lie.
C19_FirstOfSixPlaces ==
    call.fn = "find_executable_in_prefix" =>
        LET tree == call.arg
            places == 1..Len(LocatePlaces)
        IN  IF \A i \in places : ~HeldAt(tree, i)
            THEN call.res = None
            ELSE \E i \in places :
                   /\ HeldAt(tree, i)
                   /\ \A j \in places : j < i => ~HeldAt(tree, j)
                   /\ call.res = Some(LocatePrefix \o LocatePlaces[i] \o <<LocateCommand>>)

C19_Witness ==
    /\ call.fn = "find_executable_in_prefix"
    /\ <<"apt", "f_latest", "bin", "f">> \in DOMAIN call.arg
    /\ call.arg[<<"apt", "f_latest", "bin", "f">>] = "file"
    /\ HeldAt(call.arg, 2) /\ HeldAt(call.arg, 3)
    /\ call.res = Some(<<"apt", "f_latest", "usr", "bin", "f">>)

\* ------------------------------------------------------------ package spec

\* C20: a spec that holds an "@" is cut at its last one, so that
\* name + "@" + version is the spec and the version holds no "@"; a spec
\* without "@" comes back whole, with no version.
C20_SplitAtLastAt ==
    call.fn = "parse_package_spec" =>
        LET spec == call.arg
            r == call.res
        IN  IF \E i \in 1..Len(spec) : spec[i] = "@"
            THEN /\ r.version # None
                 /\ r.name \o <<"@">> \o r.version[1] = spec
                 /\ \A i \in 1..Len(r.version[1]) : r.version[1][i] # "@"
            ELSE r.name = spec /\ r.version = None

C20_Witness ==
    /\ call.fn = "parse_package_spec"
    /\ call.arg = <<"@", "@", "1">>
    /\ call.res = [name |-> <<"@">>, version |-> Some(<<"1">>)]

\* ------------------------------------------------------- fatal conditions

\* C15: on a host where no registered backend is available, an invocation
\* that names a package exits non-zero without a fetch: no download or
\* extract step is taken, and nothing but the cache root is ever created.
C15_NoBackendNoFetch ==
    (Available(host) = {}) =>
        /\ DOMAIN fs \subseteq {<<>>}
        /\ \A p \in Procs :
              proc[p].spec # <<>> =>
                 /\ proc[p].pc = "exited"
                 /\ proc[p].exit_code # None /\ proc[p].exit_code[1] # 0
                 /\ proc[p].log = <<>>
                 /\ proc[p].active_pm = ""

C15_Witness ==
    /\ Available(host) = {}
    /\ fs = (<<>> :> "dir")
    /\ \E p \in Procs :
          proc[p].spec = <<"f">> /\ proc[p].pc = "exited" /\ proc[p].exit_code = Some(1)

\* None of the six searched places of invocation p's install prefix holds
\* the command as an executable file.
NoCommandIn(f, p) ==
    \A i \in 1..Len(LocatePlaces) :
        ~IsExecutable(f, install_prefix(p) \o LocatePlaces[i] \o <<command_to_run(p)>>)

\* C16: after a fetch that succeeded (marker written) into a prefix where
\* the locator finds no command, the invocation does not go on to execute:
\* it exits non-zero, and the prefix stays cached with its marker.
C16_FetchedButNoCommand ==
    \A p \in Procs :
        ( /\ proc[p].pc \in {"returned", "exec", "execd", "exited"}
          /\ proc[p].is_successful_yoink
          /\ NoCommandIn(fs, p) ) =>
            /\ proc[p].pc \in {"returned", "exited"}
            /\ proc[p].pc = "exited" =>
                  proc[p].exit_code # None /\ proc[p].exit_code[1] \notin {0, 127}
            /\ IsDir(fs, install_prefix(p))
            /\ IsFile(fs, Append(install_prefix(p), ".yoinked"))

C16_Witness ==
    \E p \in Procs :
        /\ proc[p].pc = "exited" /\ proc[p].exit_code = Some(1)
        /\ proc[p].is_successful_yoink /\ InLog(p, "touch_marker")
        /\ NoCommandIn(fs, p)
        /\ IsFile(fs, Append(install_prefix(p), ".yoinked"))

\* Invocation p has exited, and not after a purge that reported success:
\* it ended on an error.
EndedOnError(p) ==
    /\ proc[p].pc = "exited"
    /\ ~(proc[p].purge_cache /\ proc[p].exit_code = Some(0) /\ proc[p].purge_success)

\* C17: an invocation that ends on an error exits non-zero, and with 127
\* exactly when a backend and an executable were resolved and executing the
\* command failed.
C17_ErrorExitsNonZero ==
    \A p \in Procs :
        EndedOnError(p) =>
            /\ proc[p].exit_code # None /\ proc[p].exit_code[1] # 0
            /\ proc[p].exit_code[1] = 127 <=>
                  (proc[p].active_pm # "" /\ proc[p].executable_path # None)

\* ------------------------------------------------------------------ purge

\* purge_cache has run in invocation p, which has exited.
Purged(p) == proc[p].pc = "exited" /\ proc[p].purge_cache /\ proc[p].exit_code = Some(0)

\* C18, as stated: after a purge the cache root exists and is empty, and
\* success is reported, whatever the cache root held before.
C18_PurgedAndSuccess ==
    \A p \in Procs :
        Purged(p) => (proc[p].purge_success /\ fs = (<<>> :> "dir"))

\* C18, amended: after a purge in which no OSError was raised the cache
\* root exists and is empty and success is reported; after one in which
\* removing or recreating the root raised an OSError, failure is reported.
C18_PurgedUnlessOSError ==
    \A p \in Procs :
        Purged(p) =>
            IF proc[p].purge_oserror
            THEN ~proc[p].purge_success
            ELSE proc[p].purge_success /\ fs = (<<>> :> "dir")

\* A purge after an invocation that fetched and left a complete entry.
C18_Witness ==
    \E p \in Procs :
        /\ Purged(p) /\ ~proc[p].purge_oserror
        /\ proc[p].prev.fetched /\ proc[p].prev.end = "handoff"
        /\ proc[p].purge_success /\ fs = (<<>> :> "dir")

\* ------------------------------------------------------------- end to end

\* The six phases of a fetch that succeeds.
FetchPhases ==
    << "mkdir_staging", "download_ok", "archive_found", "mkdir_prefix", "extract_ok",
       "touch_marker" >>

\* Invocation p has handed off to bin/<command> of its install prefix after
\* a fetch that went through all six phases.
FetchedAndHandedOff(p) ==
    /\ proc[p].pc = "execd"
    /\ proc[p].yoink_is_needed /\ proc[p].is_successful_yoink
    /\ proc[p].log = FetchPhases
    /\ IsFile(fs, Append(install_prefix(p), ".yoinked"))
    /\ proc[p].executable_path = Some(install_prefix(p) \o <<"bin", command_to_run(p)>>)

\* C21: where nothing goes wrong, an unpinned request that finds the cache
\* empty ends in a handoff to bin/<name> of its install prefix, after the
\* resolver asked for a fetch and the fetch downloaded, found the archive,
\* extracted and wrote the marker.
C21_EmptyCacheFetchSucceeds ==
    (\E p \in Procs : proc[p].pc = "resolve" /\ ~IsPinned(p) /\ DOMAIN fs = {<<>>})
        ~> (\E p \in Procs : FetchedAndHandedOff(p) /\ ~IsPinned(p)
                              /\ DOMAIN proc[p].fs0 = {<<>>})

C21_Witness ==
    \E p \in Procs :
        /\ FetchedAndHandedOff(p) /\ ~IsPinned(p)
        /\ DOMAIN proc[p].fs0 = {<<>>}

\* ------------------------------------------------------ the repeated request

\* The download and extract commands that the steps of log ran.
CommandRuns(log) ==
    Cardinality({ i \in 1..Len(log) :
                    log[i] \in {"download_ok", "download_nonzero", "download_oserror",
                                "extract_ok", "extract_nonzero", "extract_oserror"} })

\* The subprocess.run calls of invocation p.
Subprocesses(p) == proc[p].check_runs + CommandRuns(proc[p].log)

\* The place of backend pm in the registry.
Position(pm) == CHOOSE i \in 1..Len(RegisteredPms) : RegisteredPms[i] = pm

\* Invocation p has come to its end and repeats the unpinned request of the
\* invocation before it, which handed off to the command.
RepeatsSuccess(p) == SameUnpinnedTwice(p) /\ proc[p].prev.end = "handoff"

\* C22, as stated: an unpinned request repeated right after a successful one
\* finds the marker and the executable, runs no subprocess at all before the
\* handoff, and resolves the executable path the first one resolved.
C22_RepeatRunsNoSubprocess ==
    \A p \in Procs :
        RepeatsSuccess(p) =>
            /\ proc[p].prior.marker /\ proc[p].prior.exe
            /\ Subprocesses(p) = 0
            /\ proc[p].executable_path = proc[p].prev.executable_path

\* C22, amended: the repeated request finds the marker and the executable,
\* asks for no fetch and runs no download or extract command; the only
\* subprocesses it runs are the availability checks of get_active, one for
\* each backend tried up to the chosen one (at least one, that of the
\* chosen backend); it resolves the executable path the first one resolved.
C22_RepeatRunsOnlyAvailabilityChecks ==
    \A p \in Procs :
        RepeatsSuccess(p) =>
            /\ proc[p].prior.marker /\ proc[p].prior.exe
            /\ ~proc[p].yoink_is_needed
            /\ CommandRuns(proc[p].log) = 0
            /\ Subprocesses(p) >= 1
            /\ Subprocesses(p) <= Position(proc[p].active_pm)
            /\ proc[p].executable_path # None
            /\ proc[p].executable_path = proc[p].prev.executable_path

C22_Witness ==
    \E p \in Procs :
        /\ RepeatsSuccess(p) /\ proc[p].prev.fetched
        /\ proc[p].pc = "execd"
        /\ proc[p].active_pm = "dnf" /\ Subprocesses(p) = 2

\* ------------------------------------------------ faults in the fetch sequence

\* A command that exited non-zero.
CommandFailures == {"download_nonzero", "extract_nonzero"}

\* A command that could not be started, and a filesystem error while the
\* staging directory, the install prefix or the marker was created.
OtherFaults ==
    {"download_oserror", "extract_oserror", "mkdir_staging_oserror", "mkdir_prefix_oserror",
     "touch_marker_oserror"}

\* The fault the attempt of invocation p ended on, if any.
FaultOf(p) ==
    IF proc[p].log # <<>> /\ proc[p].log[Len(proc[p].log)] \in CommandFailures \cup OtherFaults
    THEN Some(proc[p].log[Len(proc[p].log)]) ELSE None

\* C23: after any fault of the fetch sequence the invocation is in the
\* finally block of yoink_package or past it, with the result False and a
\* failure message; once yoink_package has returned, neither the install
\* prefix nor the staging directory exists, for a command failure and for
\* any other fault alike, and main exits 1 on the result.
C23_FaultsCaughtAndCleaned ==
    \A p \in Procs :
        (FaultOf(p) # None /\ proc[p].pc # "killed") =>
            /\ proc[p].pc \in {"y_finally", "y_rmstaging", "returned", "exited"}
            /\ ~proc[p].is_successful_yoink
            /\ proc[p].final_user_message =
                  (IF FaultOf(p)[1] \in CommandFailures THEN MsgSnapped ELSE MsgRogue)
            /\ proc[p].pc \in {"y_rmstaging", "returned", "exited"} =>
                  ~Exists(fs, install_prefix(p))
            /\ proc[p].pc \in {"returned", "exited"} => ~Exists(fs, staging(p))
            /\ proc[p].pc = "exited" => proc[p].exit_code = Some(1)

C23_Witness ==
    \E p \in Procs :
        /\ FaultOf(p) = Some("touch_marker_oserror")
        /\ proc[p].pc = "returned"
        /\ Exists(proc[p].fs0, install_prefix(p)) = FALSE
        /\ ~Exists(fs, install_prefix(p)) /\ ~Exists(fs, staging(p))

\* ------------------------------------------------------- the order of phases

\* How phase i of an attempt can fail.
PhaseFailures ==
    << {"mkdir_staging_oserror"}, {"download_nonzero", "download_oserror"}, {"archive_none"},
       {"mkdir_prefix_oserror"}, {"extract_nonzero", "extract_oserror"},
       {"touch_marker_oserror"} >>

\* The pc at which an attempt that has logged n steps, none of them a
\* failure, stands.
PhasePc == << "y_mkdir", "y_download", "y_find", "y_mkprefix", "y_extract", "y_touch" >>

\* C27: the steps of an attempt are the six phases in their order, each
\* logged when it has completed, up to the first that fails; the attempt is
\* at phase n + 1 exactly when the n before it have completed; and until the
\* archive has been located the install prefix does not exist.
C27_PhasesInOrder ==
    \A p \in Procs :
        LET log == proc[p].log IN
        /\ Len(log) <= Len(FetchPhases)
        /\ \A i \in 1..Len(log) :
              \/ log[i] = FetchPhases[i]
              \/ i = Len(log) /\ log[i] \in PhaseFailures[i]
        /\ \A n \in 0..5 :
              proc[p].pc = PhasePc[n + 1] => log = SubSeq(FetchPhases, 1, n)
        /\ proc[p].pc \in {"y_mkdir", "y_download", "y_find", "y_mkprefix"} =>
              ~Exists(fs, install_prefix(p))

C27_Witness ==
    \E p \in Procs :
        /\ proc[p].pc = "y_mkprefix"
        /\ proc[p].log = SubSeq(FetchPhases, 1, 3)
        /\ Exists(fs, staging(p)) /\ ~Exists(fs, install_prefix(p))
        /\ proc[p].prior.exists

\* ------------------------------------------------------------------ no retries

\* How many steps of log are among events.
Count(log, events) == Cardinality({ i \in 1..Len(log) : log[i] \in events })

DownloadRuns(log) == Count(log, {"download_ok", "download_nonzero", "download_oserror"})
ExtractRuns(log) == Count(log, {"extract_ok", "extract_nonzero", "extract_oserror"})

\* C28: an invocation runs the download command at most once and the
\* extract command at most once, creates the staging directory at most
\* once, and when its fetch has failed and it has ended, it has exited 1
\* with that one attempt behind it.
C28_NoRetries ==
    \A p \in Procs :
        /\ DownloadRuns(proc[p].log) <= 1
        /\ ExtractRuns(proc[p].log) <= 1
        /\ Count(proc[p].log, {"mkdir_staging", "mkdir_staging_oserror"}) <= 1
        /\ (proc[p].pc = "exited" /\ proc[p].log # <<>> /\ ~proc[p].is_successful_yoink) =>
              /\ proc[p].exit_code = Some(1)
              /\ Count(proc[p].log, {"mkdir_staging", "mkdir_staging_oserror"}) = 1

C28_Witness ==
    \E p \in Procs :
        /\ proc[p].pc = "exited" /\ proc[p].exit_code = Some(1)
        /\ DownloadRuns(proc[p].log) = 1 /\ ExtractRuns(proc[p].log) = 1
        /\ FaultOf(p) = Some("extract_nonzero")

\* ------------------------------------------------------- the interrupted fetch

\* Invocation p has been through the cache resolver.
PastResolver(p) ==
    \/ proc[p].pc \in {"y_mkdir", "y_download", "y_find", "y_mkprefix", "y_extract", "y_touch",
                       "y_finally", "y_rmstaging", "returned", "exec", "execd"}
    \/ proc[p].pc = "exited" /\ proc[p].active_pm # ""

\* Invocation p repeats the unpinned request of the invocation before it,
\* which was killed within its fetch.
AfterKilledFetch(p) ==
    /\ proc[p].prev.end = "killed" /\ proc[p].prev.fetched
    /\ proc[p].spec # <<>> /\ proc[p].spec = proc[p].prev.spec
    /\ ~IsPinned(p)
    /\ proc[p].active_pm = proc[p].prev.active_pm
    /\ PastResolver(p)

\* What the resolver of p did on finding no complete entry: no reuse, the
\* leftover prefix removed, a fresh fetch started.
Repaired(p) ==
    /\ ~proc[p].prior.marker
    /\ proc[p].yoink_is_needed
    /\ proc[p].pc = "y_mkdir" => ~Exists(fs, install_prefix(p))
    /\ proc[p].pc \in {"exec", "execd", "exited"} => proc[p].log # <<>>

\* C26, as stated: an invocation killed at any point of its fetch leaves
\* its install prefix absent or without the marker, and the next unpinned
\* invocation for the same spec does not reuse the prefix, removes it and
\* fetches afresh.
C26_KilledAnywhereRepaired ==
    \A p \in Procs :
        /\ (proc[p].pc = "killed" /\ proc[p].log # <<>>) => ~IsFile(fs, marker(p))
        /\ AfterKilledFetch(p) => Repaired(p)

\* C26, amended: the same for an invocation killed before it wrote the
\* marker.  (One killed after it, within the finally block, leaves a prefix
\* with the marker, which the next invocation takes for complete.)
C26_KilledBeforeMarkerRepaired ==
    \A p \in Procs :
        /\ (proc[p].pc = "killed" /\ proc[p].log # <<>> /\ ~InLog(p, "touch_marker")) =>
              ~IsFile(fs, marker(p))
        /\ (AfterKilledFetch(p) /\ ~proc[p].prev.marked) => Repaired(p)

C26_Witness ==
    \E p \in Procs :
        /\ AfterKilledFetch(p) /\ ~proc[p].prev.marked
        /\ proc[p].prior.exists /\ proc[p].prior.exe
        /\ proc[p].pc = "execd" /\ proc[p].log = FetchPhases

\* ------------------------------------------------------- the staging directory

\* Invocation p is about to run its download command.
DownloadStarts(p) == proc[p].pc = "y_download"

\* C30, as stated: when the download command starts, the staging directory
\* has just been created by this attempt (it was not there when
\* yoink_package was entered) and holds nothing, also after earlier
\* attempts were killed and left theirs behind.
C30_StagingFresh ==
    \A p \in Procs :
        DownloadStarts(p) =>
            /\ IsDir(fs, staging(p))
            /\ ~Exists(proc[p].fs0, staging(p))
            /\ Children(fs, staging(p)) = {}

\* ------------------------------------------------------ concurrent invocations

\* Processes p and q are both inside yoink_package, between the creation of
\* the staging directory and the return.
BothInAttempt(p, q) == p # q /\ InAttempt(p) /\ InAttempt(q)

\* C25: two fetch attempts in progress at the same time in processes with
\* different process ids have different staging directories, also when
\* backend, package and version are the same; neither directory lies
\* inside the other.
C25_StagingNeverShared ==
    \A p, q \in RaceProcs :
        (BothInAttempt(p, q) /\ proc[p].pid # proc[q].pid) =>
            /\ staging(p) # staging(q)
            /\ ~IsPrefix(staging(p), staging(q))

C25_Witness ==
    \E p, q \in RaceProcs :
        /\ BothInAttempt(p, q) /\ proc[p].pid # proc[q].pid
        /\ proc[p].spec = proc[q].spec /\ proc[p].active_pm = proc[q].active_pm
        /\ proc[p].pc = "y_find" /\ proc[q].pc = "y_find"
        /\ Children(fs, staging(p)) # {} /\ Children(fs, staging(q)) # {}

\* The install prefixes that hold the completion marker.
MarkedPrefixes(f) == { d \in DOMAIN f : IsFile(f, Append(d, ".yoinked")) }

\* A step in which the fetch attempt of process p fails (a phase ends in
\* the finally block without success), cleans up after failing, or is
\* killed.
FailureStep(p) ==
    \/ proc[p].pc # "killed" /\ proc'[p].pc = "killed"
    \/ /\ proc[p].pc \in {"y_mkdir", "y_download", "y_find", "y_mkprefix", "y_extract", "y_touch"}
       /\ proc'[p].pc = "y_finally" /\ ~proc'[p].is_successful_yoink
    \/ /\ proc[p].pc \in {"y_finally", "y_rmstaging"} /\ ~proc[p].is_successful_yoink
       /\ proc'[p].pc # proc[p].pc

\* C24, as stated: in any interleaving, concurrent invocations for one cache
\* key included, no step in which a fetch attempt fails, cleans up after
\* failing or is killed removes or alters an install prefix that holds the
\* marker.
C24_MarkedPrefixSurvivesFailure ==
    [][\A p \in RaceProcs :
          FailureStep(p) => \A d \in MarkedPrefixes(fs) : SameUnder(fs, fs', d)]_vars

\* C24, amended: such a step leaves every marked install prefix of another
\* cache key as it is, and a kill changes nothing at all.  (The marked
\* prefix of the attempt's own key, completed by a concurrent invocation,
\* is not protected.)
C24_OtherKeysSurviveFailure ==
    [][\A p \in RaceProcs :
          FailureStep(p) =>
              /\ \A d \in MarkedPrefixes(fs) :
                    d # install_prefix(p) => SameUnder(fs, fs', d)
              /\ proc'[p].pc = "killed" => fs' = fs]_vars

C24_Witness ==
    \E p, q \in RaceProcs :
        /\ p # q /\ proc[q].active_pm # "" /\ proc[p].active_pm # ""
        /\ install_prefix(p) # install_prefix(q)
        /\ proc[p].pc = "returned" /\ FaultOf(p) = Some("extract_nonzero")
        /\ Exists(proc[p].fs0, install_prefix(q)) /\ IsFile(proc[p].fs0, marker(q))
        /\ CompleteEntry(fs, q)

\* C29, as stated: in any interleaving of two invocations for one cache
\* key, while the marker is in the install prefix no invocation is at its
\* extract command for that prefix.
C29_NoExtractIntoMarked ==
    \A p \in RaceProcs : proc[p].pc = "y_extract" => ~IsFile(fs, marker(p))

\* C29, amended: an invocation is at its extract command with the marker
\* already in the prefix only when a concurrent invocation for the same
\* cache key wrote that marker; the marker of an invocation alone on its key
\* is present only once its extract command has ended.
C29_MarkedWhileExtractingOnlyByRace ==
    \A p \in RaceProcs :
        (proc[p].pc = "y_extract" /\ IsFile(fs, marker(p))) =>
            /\ ~InLog(p, "touch_marker")
            /\ \E q \in RaceProcs \ {p} :
                  /\ proc[q].active_pm # ""
                  /\ install_prefix(q) = install_prefix(p)
                  /\ InLog(q, "touch_marker")

C29_Witness ==
    \E p, q \in RaceProcs :
        /\ p # q /\ proc[q].active_pm # ""
        /\ proc[p].pc = "y_extract" /\ IsFile(fs, marker(p))
        /\ install_prefix(q) = install_prefix(p)
        /\ proc[q].pc = "execd"

\* ------------------------------------------------------ backend availability

\* Backend pm's tool resolves on PATH and its version query exits 0.
Passes(tools, pm) == tools[pm].resolves /\ tools[pm].outcome = "ok"

\* C31: get_active reports a backend only if its tool resolves and its
\* version query exits 0; every backend before it in the registry, whether
\* its tool does not resolve or resolves and fails the query, is passed
\* over, get_active going on to the next; with no backend passing, none is
\* reported.
C31_AvailableIffResolvesAndSucceeds ==
    call.fn = "get_active_walk" =>
        LET tools == call.arg
            order == 1..Len(RegisteredPms)
        IN  /\ ~call.res.raised
            /\ IF \A i \in order : ~Passes(tools, RegisteredPms[i])
               THEN call.res.pm = None
               ELSE \E i \in order :
                      /\ call.res.pm = Some(RegisteredPms[i])
                      /\ Passes(tools, RegisteredPms[i])
                      /\ \A j \in order : j < i => ~Passes(tools, RegisteredPms[j])

\* ------------------------------------------------------------ the query string

\* The last argument of a command line.
LastArg(argv) == argv[Len(argv)]

\* C32: the package query that ends the download command is
\* name=version for apt and pacman and name-version for dnf when a version
\* was requested, and the bare name when none was.
C32_QueryJoinsNameAndVersion ==
    call.fn = "get_download_command" =>
        LET a == call.arg IN
        /\ a.version = None => LastArg(call.res) = Str(a.name)
        /\ (a.version # None /\ a.version[1] # <<>>) =>
              LastArg(call.res) =
                  Str(a.name) \o (IF a.pm = "dnf" THEN "-" ELSE "=") \o Str(a.version[1])

C32_Witness ==
    /\ call.fn = "get_download_command"
    /\ call.arg.pm = "dnf" /\ call.arg.name = <<"a", "-", "b">>
    /\ call.arg.version = Some(<<"1", ".", "2">>)
    /\ LastArg(call.res) = "a-b-1.2"

\* The place of an entry in a list of entries, 0 when it is not there.
IndexOf(entries, e) ==
    IF \E i \in 1..Len(entries) : entries[i] = e
    THEN CHOOSE i \in 1..Len(entries) : entries[i] = e /\ \A j \in 1..(i - 1) : entries[j] # e
    ELSE 0

\* C33: the PATH of the executed program starts with the bin directories that
\* exist in the install prefix, in the order bin, usr/bin, sbin, usr/sbin,
\* usr/local/bin, then the prefix itself only if an executable file lies
\* directly in it, no entry twice, followed by the previous PATH unchanged;
\* when there is no such directory PATH is what it was.
C33_PathPrefixedInOrder ==
    call.fn = "augmented_path" =>
        LET l == call.arg.layout
            old == call.arg.env_path
            E == call.res.entries
            Bins == { i \in 1..5 : l.is_dir[i] }
        IN  /\ \A i \in Bins : IndexOf(E, l.resolved[i]) > 0
            /\ \A k \in 1..Len(E) :
                 \/ \E i \in Bins : E[k] = l.resolved[i]
                 \/ E[k] = l.root /\ l.root_is_dir /\ l.root_has_executable /\ k = Len(E)
            /\ (l.root_is_dir /\ l.root_has_executable) => IndexOf(E, l.root) > 0
            /\ \A i, j \in Bins :
                 (i < j /\ \A h \in Bins : h < i => l.resolved[h] # l.resolved[i]
                                                    /\ l.resolved[h] # l.resolved[j])
                 => IndexOf(E, l.resolved[i]) <= IndexOf(E, l.resolved[j])
            /\ \A j, k \in 1..Len(E) : j # k => E[j] # E[k]
            /\ IF E = <<>> THEN call.res.PATH = old
               ELSE call.res.PATH =
                        Some(join(E, ":") \o ":" \o (IF old = None THEN "" ELSE old[1]))

\* Witness of C33: a usr-merged prefix (bin and sbin lead to usr/bin and
\* usr/sbin) with an executable file in its root, PATH set before: the two
\* directories once each, then the prefix, then the old PATH.
C33_Witness ==
    /\ call.fn = "augmented_path"
    /\ call.arg.layout.is_dir = [i \in 1..5 |-> i # 5]
    /\ call.arg.layout.resolved[1] = call.arg.layout.resolved[2]
    /\ call.arg.layout.root_has_executable
    /\ call.arg.env_path = Some("/usr/bin:/bin")
    /\ call.res.PATH = Some("/c/apt/f_latest/usr/bin:/c/apt/f_latest/usr/sbin:"
                            \o "/c/apt/f_latest:/usr/bin:/bin")

\* stop() has asked the running spinner to end; its thread has ended.
StopRequested == spinner._stop_requested
Terminated == spinner.thread = "ended"
AtCycleBoundary == spinner.current_frame_idx = 0 /\ spinner._cycle_complete_event

C35_FetchStartsWithoutPrefix ==
    \A p \in Procs :
        /\ proc[p].pc \in {"y_mkdir", "y_download", "y_find", "y_mkprefix"} =>
              /\ proc[p].yoink_is_needed
              /\ ~Exists(fs, install_prefix(p))
              /\ \A q \in DOMAIN fs : ~IsPrefix(install_prefix(p), q)
        /\ proc[p].pc = "y_extract" =>
              /\ IsDir(fs, install_prefix(p))
              /\ Children(fs, install_prefix(p)) = {}
              /\ \A q \in DOMAIN fs : IsPrefix(install_prefix(p), q) => q = install_prefix(p)

\* Witness of C35: the resolver found a complete prefix with the command in
\* it (a pinned request fetches all the same), and the extract command is
\* about to run in an empty prefix.
C35_Witness ==
    \E p \in Procs :
        /\ proc[p].pc = "y_extract"
        /\ proc[p].prior.exists /\ proc[p].prior.marker /\ proc[p].prior.exe
        /\ Children(fs, install_prefix(p)) = {}

\* The invocation asked for a version, and its resolver met a complete
\* cache entry under the key: a prefix with the marker and the command.
PinnedOverComplete(p) ==
    /\ Truthy(pkg_version_requested(p))
    /\ proc[p].prior.exists /\ proc[p].prior.marker /\ proc[p].prior.exe

\* The fetch of the invocation has failed: yoink_package is through its
\* cleanup, or main has exited, with is_successful_yoink False.
FetchFailed(p) ==
    /\ proc[p].pc \in {"y_rmstaging", "returned", "exited"}
    /\ proc[p].log # <<>>
    /\ ~proc[p].is_successful_yoink

ReturnedFailure(p) ==
    /\ proc[p].pc \in {"returned", "exited"}
    /\ proc[p].log # <<>>
    /\ ~proc[p].is_successful_yoink

\* C37: after a fetch attempt that returned failure the install prefix does
\* not hold the completion marker, also when the best-effort removal of the
\* prefix has failed and the directory is still there, so that the next
\* resolver does not take the leftover for a complete entry.
C37_NoMarkerAfterFailure ==
    \A p \in Procs :
        ReturnedFailure(p) => ~IsFile(fs, marker(p)) /\ ~has_marker(fs, p)

\* The package spec of p ends in "@"; what stands before that "@".
EndsInAt(p) == proc[p].spec # <<>> /\ proc[p].spec[Len(proc[p].spec)] = "@"
BeforeAt(p) == SubSeq(proc[p].spec, 1, Len(proc[p].spec) - 1)

\* C38: a spec that ends in "@" is handled as the unpinned request for the
\* name before the "@": its install prefix is the latest key of that name
\* (the key of the spec without the "@"), its resolver reuses a complete
\* entry that holds the command and fetches otherwise, and the download
\* command is given the bare name.
C38_EmptyVersionIsUnpinned ==
    \A p \in Procs :
        (EndsInAt(p) /\ proc[p].pc \notin Finished /\ proc[p].pc # "purge") =>
            /\ pkg_name_base(p) = BeforeAt(p)
            /\ install_prefix(p) = install_prefix_of(active_pm(p), BeforeAt(p), None)
            /\ install_prefix(p) =
                  install_prefix_of(active_pm(p), parse_package_spec(BeforeAt(p)).name,
                                    parse_package_spec(BeforeAt(p)).version)
            /\ install_prefix(p) = <<active_pm(p), Str(BeforeAt(p)) \o "_latest">>
            /\ proc[p].pc # "resolve" =>
                  proc[p].yoink_is_needed = ~(proc[p].prior.marker /\ proc[p].prior.exe)
            /\ LastArg(get_download_command(active_pm(p),
                    pkg_name_versioned(active_pm(p), pkg_name_base(p), pkg_version_requested(p)),
                    "d", TRUE)) = Str(BeforeAt(p))

\* Witness of C38: f was fetched by the invocation before, and f@ is handed
\* the entry that invocation left, without a fetch.
C38_Witness ==
    \E p \in Procs :
        /\ proc[p].spec = <<"f", "@">>
        /\ proc[p].prev.spec = <<"f">> /\ proc[p].prev.fetched
        /\ proc[p].pc = "exec" /\ ~proc[p].yoink_is_needed
        /\ proc[p].log = <<>>
        /\ proc[p].executable_path # None

====
